---- MODULE Spec2Model ----
(***************************************************************************)
(* A model of the Lightroom gallery: the OAuth handler                     *)
(* (src/oauth_handler.py), the Lightroom API client                        *)
(* (src/lightroom_client.py) and the Flask routes that share one instance  *)
(* of each (src/app.py).                                                   *)
(*                                                                         *)
(* Python values are modelled as follows.  A str is a TLA+ string; None    *)
(* is the token PyNone, which is no str the program can hold.  A parsed    *)
(* JSON value or an HTTP response is a record that names its shape.        *)
(***************************************************************************)
EXTENDS Integers, Sequences, FiniteSets, TLC

VARIABLES
    state,       \* OAuthHandler.state: the stored CSRF state, or PyNone
    nonces,      \* how many values secrets.token_urlsafe has produced
    builds,      \* get_authorization_url calls since the last get_access_token call
    usedStates,  \* state values that passed the check of get_access_token since the last get_authorization_url
    authCall     \* the call the last step made on the OAuthHandler, with its arguments and its outcome

authVars == <<state, nonces, builds, usedStates, authCall>>

VARIABLES
    catalog,     \* LightroomClient.catalog: the memoized catalog, or None
    memoToken,   \* the access token of the call that memoized the catalog
    reqs,        \* the upstream requests the last step made the client issue, in order
    gwCall,      \* the last call made on the client directly, with its arguments and its outcome
    prevCall     \* the call before it, when both are get_catalog calls

gwVars == <<catalog, memoToken, reqs, gwCall, prevCall>>

VARIABLES
    session,     \* session['access_token'] of each browser session; PyNone: no such key
    webCall      \* the last request a route served, with its arguments and its response

webVars == <<session, webCall>>

VARIABLES
    input,       \* SpecPage: the page_url, the limit and the upstream's answer of a get_album_assets_page call
    drain,       \* where a _get_paged_resources call is: its page and its resources so far
    threads      \* where the get_catalog call of each request thread is

vars == <<authVars, gwVars, webVars, input, drain, threads>>

-----------------------------------------------------------------------------
(* Python values *)

PyNone == "<None>"

\* bool(v) of a str-or-None value: None and '' are falsy.
Truthy(v) == v # PyNone /\ v # ""

-----------------------------------------------------------------------------
(* Bounds *)

\* get_authorization_url calls in one run.
MaxNonce == 2

-----------------------------------------------------------------------------
(* requests: what the program relies on *)

\* Response.raise_for_status(): raises HTTPError for 4xx and 5xx only.
\* Response.ok is its negation.
RaisesForStatus(status) == status >= 400 /\ status < 600

-----------------------------------------------------------------------------
(* OAuthHandler *)

\* secrets.token_urlsafe(32): 256 random bits; the i-th value drawn is taken
\* to differ from every other value drawn and from every value a caller
\* makes up.
token_urlsafe(i) == "n" \o ToString(i)

\* The state values a caller can present to get_access_token: none, the empty
\* string, a made-up value, and every value the handler can generate.
ProvidedStates ==
    {PyNone, "", "forged"} \cup {token_urlsafe(i) : i \in 1..MaxNonce}

\* The token endpoint's answers.  A body is named by what response.json()
\* makes of it.
TokenBodies ==
    { "empty",      \* ''
      "text",       \* text that is no JSON
      "obj_desc",   \* {"error": .., "error_description": ..}
      "obj_err",    \* {"error": ..}
      "obj_none",   \* a JSON object with neither key
      "non_obj",    \* JSON that is no object: [], "x", null
      "token" }     \* {"access_token": .., "refresh_token": .., "expires_in": ..}

TokenStatuses == {200, 302, 400, 401, 500}

NoResponse == [sent |-> FALSE, arrived |-> FALSE, status |-> 0, body |-> "empty"]

TokenResponses ==
    [sent : {TRUE}, arrived : {TRUE}, status : TokenStatuses, body : TokenBodies]
    \cup {[sent |-> TRUE, arrived |-> FALSE, status |-> 0, body |-> "empty"]}

\* response.json() raises JSONDecodeError (a ValueError).
JsonFails(body) == body \in {"empty", "text"}

\* line 57: self.state = secrets.token_urlsafe(32)
KeepFirstState(stored, fresh) == IF stored = PyNone THEN fresh ELSE stored

AssignState(stored, fresh) == fresh

\* line 84: if state and state != self.state
RejectsOnlyWhenStored(provided, stored) ==
    Truthy(provided) /\ stored # PyNone /\ provided # stored

StateRejected(provided, stored) == Truthy(provided) /\ provided # stored

\* lines 118-123: the detail of the HTTPError, named by where it comes from.
ErrorDetail(resp) ==
    CASE resp.body = "obj_desc" -> "error_description"
      [] resp.body = "obj_err" -> "error"
      [] resp.body \in {"obj_none", "token"} -> "text"
      [] resp.body = "text" -> "text"
      [] resp.body = "empty" -> "status"
      [] OTHER -> "none"

\* lines 109-137: what get_access_token does with the answer to its POST.
ExchangeResult(resp) ==
    IF ~resp.arrived
    THEN [outcome |-> "UnexpectedError", detail |-> "none"]       \* requests.post raised
    ELSE IF RaisesForStatus(resp.status)
    THEN IF resp.body = "non_obj"
         THEN [outcome |-> "UnexpectedError", detail |-> "none"]  \* error_json.get: AttributeError
         ELSE [outcome |-> "TokenExchangeFailed", detail |-> ErrorDetail(resp)]
    ELSE IF JsonFails(resp.body)
    THEN [outcome |-> "UnexpectedError", detail |-> "none"]       \* response.json() raised
    ELSE [outcome |-> "ok", detail |-> resp.body]

\* lines 170-183: what refresh_access_token does with the answer to its POST.
RefreshResult(resp) ==
    IF ~resp.arrived
    THEN [outcome |-> "TransportError", detail |-> "none"]
    ELSE IF RaisesForStatus(resp.status)
    THEN [outcome |-> "TokenRefreshFailed", detail |-> "status"]
    ELSE IF JsonFails(resp.body)
    THEN [outcome |-> "JSONDecodeError", detail |-> "none"]
    ELSE [outcome |-> "ok", detail |-> resp.body]

\* get_access_token and refresh_access_token assign no attribute of the handler.
ConsumeState(stored, outcome) == IF outcome = "ok" THEN PyNone ELSE stored

StateAfterTokenCall(stored, outcome) == stored

AuthCallInit ==
    [op |-> "none", provided |-> PyNone, stored |-> PyNone, builds |-> 0,
     replayed |-> FALSE, resp |-> NoResponse, outcome |-> "none",
     detail |-> "none", posts |-> 0]

get_authorization_url ==
    /\ nonces < MaxNonce
    /\ nonces' = nonces + 1
    /\ state' = AssignState(state, token_urlsafe(nonces + 1))
    /\ builds' = builds + 1
    /\ usedStates' = {}
    /\ authCall' = [AuthCallInit EXCEPT !.op = "get_authorization_url",
                                        !.stored = state,
                                        !.builds = builds,
                                        !.outcome = "url"]

get_access_token(provided, resp) ==
    LET rejected == StateRejected(provided, state)
        res == IF rejected
               THEN [outcome |-> "InvalidState", detail |-> "none"]
               ELSE ExchangeResult(resp)
    IN  /\ state' = StateAfterTokenCall(state, res.outcome)
        /\ builds' = 0
        /\ usedStates' = IF ~rejected /\ Truthy(provided)
                         THEN usedStates \cup {provided}
                         ELSE usedStates
        /\ authCall' = [op |-> "get_access_token", provided |-> provided,
                        stored |-> state, builds |-> builds,
                        replayed |-> provided \in usedStates,
                        resp |-> IF rejected THEN NoResponse ELSE resp,
                        outcome |-> res.outcome, detail |-> res.detail,
                        posts |-> IF rejected THEN 0 ELSE 1]
        /\ UNCHANGED nonces

refresh_access_token(resp) ==
    LET res == RefreshResult(resp)
    IN  /\ state' = StateAfterTokenCall(state, res.outcome)
        /\ authCall' = [AuthCallInit EXCEPT !.op = "refresh_access_token",
                                            !.stored = state,
                                            !.builds = builds,
                                            !.resp = resp,
                                            !.outcome = res.outcome,
                                            !.detail = res.detail,
                                            !.posts = 1]
        /\ UNCHANGED <<nonces, builds, usedStates>>

BuildAuthorizationUrl == get_authorization_url /\ UNCHANGED <<gwVars, webVars, input, drain, threads>>

ExchangeCode ==
    \E provided \in ProvidedStates, resp \in TokenResponses :
        get_access_token(provided, resp) /\ UNCHANGED <<gwVars, webVars, input, drain, threads>>

Refresh ==
    \E resp \in TokenResponses :
        refresh_access_token(resp) /\ UNCHANGED <<gwVars, webVars, input, drain, threads>>

AuthNext == BuildAuthorizationUrl \/ ExchangeCode \/ Refresh

-----------------------------------------------------------------------------
(* URLs and JSON values *)

\* A URL string, by its urlparse components.  The path is the sequence of
\* its segments ("/v2/catalog" is <<"v2", "catalog">>, "/v2/" is <<"v2", "">>),
\* and rooted says that it starts with "/".  The query is the sequence of its
\* key=value pairs, each a pair of decoded strings.  scheme is "" for a string
\* that starts with neither "http://" nor "https://"; such a string has its
\* text before "?" in path.
Url(scheme, host, path, query, fragment) ==
    [scheme |-> scheme, host |-> host, rooted |-> TRUE, path |-> path,
     query |-> query, fragment |-> fragment]

\* A relative reference that does not start with "/".
Relative(path, query) ==
    [scheme |-> "", host |-> "", rooted |-> FALSE, path |-> path,
     query |-> query, fragment |-> ""]

\* None, and the empty string.
NoUrl == Relative(<<>>, <<>>)

\* line 23
API_BASE_URL == Url("https", "lr.adobe.io", <<"v2">>, <<>>, "")

\* An endpoint, as the client builds them: a path that starts with "/", and
\* a query.
Endpoint(path, query) == Url("", "", path, query, "")

\* Python None; also what an absent key, JSON null and an empty body give.
JsonNone == [kind |-> "none"]

\* links.get(rel): absent (no key, or {}), a link without href (or href ''),
\* or a link with href.
NoLink == [kind |-> "absent", url |-> NoUrl]

EmptyLink == [kind |-> "no_href", url |-> NoUrl]

HrefLink(url) == [kind |-> "href", url |-> url]

\* A JSON object.  id is PyNone when the key is absent; base is NoUrl when the
\* key is absent; other says the object has keys besides those named here.
JsonObj(id, hasResources, resources, next, prev, base, other) ==
    [kind |-> "obj", id |-> id, hasResources |-> hasResources,
     resources |-> resources, next |-> next, prev |-> prev, base |-> base,
     other |-> other]

\* JSON that is no object and not null: a list, a string, a number.
JsonNonObj(truthy) == [kind |-> "non_obj", truthy |-> truthy]

CatalogObj(id) == JsonObj(id, FALSE, <<>>, NoLink, NoLink, NoUrl, FALSE)

EmptyObj == CatalogObj(PyNone)

\* bool(v) of a parsed JSON value.
JsonTruthy(v) ==
    CASE v.kind = "none" -> FALSE
      [] v.kind = "non_obj" -> v.truthy
      [] OTHER -> v # EmptyObj

-----------------------------------------------------------------------------
(* Upstream responses of the Lightroom API *)

\* A body is a prefix followed by a payload: nothing, text that is no JSON, or
\* the text of the JSON value json.  The prefix is a sequence of tokens: a
\* word, one of ( 1 ) { }, or a whitespace character.
Body(prefix, kind, json) == [prefix |-> prefix, kind |-> kind, json |-> json]

EmptyBody == Body(<<>>, "empty", JsonNone)

\* The prefix while(1){}, and variants of it in case and whitespace.
While1Prefixes ==
    {<<"while", "(", "1", ")", "{", "}">>,
     <<"While", " ", "(", " ", "1", " ", ")", " ", "{", " ", "}", " ">>,
     <<"WHILE", "\n", "(", "1", ")", "\n", "{", "}">>}

Response(status, body) == [arrived |-> TRUE, status |-> status, body |-> body]

\* requests raised: no response came.
TransportError == [arrived |-> FALSE, status |-> 0, body |-> EmptyBody]

\* No request is made.
NotAsked == [arrived |-> FALSE, status |-> -1, body |-> EmptyBody]

-----------------------------------------------------------------------------
(* LightroomClient *)

Raised(err, status, parsed) ==
    [raised |-> err, status |-> status, value |-> JsonNone, parsed |-> parsed]

Returned(v) == [raised |-> "none", status |-> 0, value |-> v, parsed |-> TRUE]

\* \s
IsSpace(t) == t \in {" ", "\n"}

\* line 52: the text starts with a match of the pattern
\* ^while\s*\(\s*1\s*\)\s*{\s*}\s* (IGNORECASE), tokens being the tokens of
\* the text that are no whitespace: the text starts with the word, and the
\* six tokens follow one another with nothing but whitespace between them.
While1Matches(text, tokens) ==
    /\ Len(tokens) >= 6
    /\ ~IsSpace(text[1])
    /\ tokens[1] \in {"while", "While", "WHILE"}
    /\ SubSeq(tokens, 2, 6) = <<"(", "1", ")", "{", "}">>

\* How many tokens of the text the pattern matches, 0 when it does not
\* match: the whitespace after the last of the six is part of the match.
While1Match(text) ==
    IF While1Matches(text, SelectSeq(text, LAMBDA t : ~IsSpace(t)))
    THEN CHOOSE n \in 6..Len(text) :
             /\ Len(SelectSeq(SubSeq(text, 1, n), LAMBDA t : ~IsSpace(t))) = 6
             /\ n < Len(text) => ~IsSpace(text[n + 1])
    ELSE 0

\* line 53: while1_regex.sub('', response_text)
KeepPrefix(prefix) == prefix

StripWhile1(prefix) == SubSeq(prefix, While1Match(prefix) + 1, Len(prefix))

\* line 55: json.loads(cleaned_text), which skips leading whitespace.
JsonLoads(prefix, body) ==
    IF (\E i \in 1..Len(prefix) : ~IsSpace(prefix[i])) \/ body.kind # "json"
    THEN Raised("JSONDecodeError", 0, TRUE)
    ELSE Returned(body.json)

\* lines 34-55
process_json_response(body) ==
    IF body.prefix = <<>> /\ body.kind = "empty"
    THEN Returned(JsonNone)                                  \* lines 47-48
    ELSE JsonLoads(StripWhile1(body.prefix), body)

\* The path of the string f"{API_BASE_URL}{endpoint}": an endpoint that does
\* not start with "/" continues the last segment of the base.
AppendedPath(endpoint) ==
    IF endpoint.rooted \/ endpoint.path = <<>>
    THEN API_BASE_URL.path \o endpoint.path
    ELSE SubSeq(API_BASE_URL.path, 1, Len(API_BASE_URL.path) - 1)
         \o <<API_BASE_URL.path[Len(API_BASE_URL.path)] \o endpoint.path[1]>>
         \o SubSeq(endpoint.path, 2, Len(endpoint.path))

\* lines 81-84
RequestUrl(endpoint) ==
    IF endpoint.scheme \in {"http", "https"}
    THEN endpoint
    ELSE [endpoint EXCEPT !.scheme = API_BASE_URL.scheme,
                          !.host = API_BASE_URL.host,
                          !.rooted = TRUE,
                          !.path = AppendedPath(endpoint)]

\* line 105: if response.status_code == 401
TokenExpiredOn403(status) == status = 403

IsTokenExpired(status) == status = 401

\* line 109: response.raise_for_status()
RaisesFor5xx(status) == status >= 500 /\ status < 600

RaiseForStatus(status) == RaisesForStatus(status)

\* lines 104-115, and lines 354-361 of get_asset_rendition (json = FALSE):
\* what the client makes of the response.
HandleResponse(resp, json) ==
    IF ~resp.arrived THEN Raised("TransportError", 0, FALSE)
    ELSE IF IsTokenExpired(resp.status)
    THEN Raised("TokenExpired", resp.status, FALSE)
    ELSE IF RaiseForStatus(resp.status)
    THEN Raised("UpstreamRequestFailed", resp.status, FALSE)
    ELSE IF json THEN process_json_response(resp.body)
    ELSE [raised |-> "none", status |-> 0, value |-> [kind |-> "bytes"],
          parsed |-> FALSE]

\* One request and its response, as logged in reqs; parsed says whether the
\* response's body was handed to the JSON decoding.
Exchange(via, token, url, resp, parsed) ==
    [via |-> via, token |-> token, url |-> url, answered |-> resp.arrived,
     status |-> resp.status, parsed |-> parsed]

\* The request to url, answered by resp, which the client handled as r.
Requested(via, token, url, resp, r) ==
    [req |-> Exchange(via, token, url, resp, r.parsed), raised |-> r.raised,
     status |-> r.status, value |-> r.value]

\* lines 66-115
make_request(via, token, endpoint, resp) ==
    Requested(via, token, RequestUrl(endpoint), resp, HandleResponse(resp, TRUE))

\* line 158: if (self.catalog is not None)
NeverMemoized(memo) == FALSE

IsMemoized(memo) == memo # JsonNone

\* lines 161-162: self.catalog = self._make_request(..); return self.catalog
Memoize(memo, r) ==
    [memo |-> IF r.raised = "none" THEN r.value ELSE memo,
     fetched |-> r.raised = "none" /\ r.value # JsonNone,
     reqs |-> <<r.req>>, raised |-> r.raised, status |-> r.status,
     value |-> r.value]

\* lines 148-162.  memo is self.catalog afterwards.
get_catalog(token, memo, resp) ==
    IF IsMemoized(memo)
    THEN [memo |-> memo, fetched |-> FALSE, reqs |-> <<>>, raised |-> "none",
          status |-> 0, value |-> memo]
    ELSE Memoize(memo, make_request("get_catalog", token,
                                    Endpoint(<<"catalog">>, <<>>), resp))

\* lines 180-184: the error raised on the catalog c, "none" when it has an id.
CatalogIdError(c) ==
    CASE c.raised # "none" -> c.raised
      [] ~JsonTruthy(c.value) -> "CatalogUnavailable"
      [] c.value.kind # "obj" -> "AttributeError"
      [] ~Truthy(c.value.id) -> "CatalogUnavailable"
      [] OTHER -> "none"

WithCatalogId(c, err) ==
    [memo |-> c.memo, fetched |-> c.fetched, reqs |-> c.reqs, raised |-> err,
     status |-> c.status, id |-> IF err = "none" THEN c.value.id ELSE PyNone]

ResolvedCatalog(c) == WithCatalogId(c, CatalogIdError(c))

\* lines 179-184 (and 223-228, 237-242, 297-302, 330-335): the catalog id.
CatalogId(token, memo, resp) == ResolvedCatalog(get_catalog(token, memo, resp))

-----------------------------------------------------------------------------
(* urllib.parse: what the program relies on *)

\* The directory of a base path (RFC 3986, 5.2.3): the path without its
\* last segment.
BaseDir(path) == SubSeq(path, 1, Len(path) - 1)

\* urljoin(base, href), for an href free of dot segments: an href with a
\* scheme stands, one that starts with "/" replaces the base's path, any
\* other is merged with the base's directory.
urljoin(base, href) ==
    CASE href.scheme # "" -> href
      [] href.rooted -> [href EXCEPT !.scheme = base.scheme, !.host = base.host]
      [] OTHER -> [href EXCEPT !.scheme = base.scheme, !.host = base.host,
                               !.rooted = TRUE,
                               !.path = BaseDir(base.path) \o @]

\* A dict of lists in insertion order, as the sequence of its items
\* [key, value]: the values of one key are adjacent and in order.
DictHas(d, k) == \E i \in 1..Len(d) : d[i].key = k

\* d[k][0]
DictFirst(d, k) ==
    d[CHOOSE i \in 1..Len(d) :
          d[i].key = k /\ \A j \in 1..(i - 1) : d[j].key # k].value

\* d[k] = [v]: in the place of k when k is a key of d, at the end otherwise.
DictSet(d, k, v) ==
    IF DictHas(d, k)
    THEN LET first == CHOOSE i \in 1..Len(d) :
                          d[i].key = k /\ \A j \in 1..(i - 1) : d[j].key # k
         IN  SubSeq(d, 1, first - 1) \o <<[key |-> k, value |-> v]>>
             \o SelectSeq(SubSeq(d, first + 1, Len(d)), LAMBDA it : it.key # k)
    ELSE Append(d, [key |-> k, value |-> v])

\* parse_qs(query), keep_blank_values=False: a pair whose value is blank is
\* dropped; the values of one key are collected, in order, under the key's
\* first occurrence.
parse_qs(query) ==
    LET kept == SelectSeq(query, LAMBDA p : p[2] # "")
        First(i) == CHOOSE j \in 1..i :
                        kept[j][1] = kept[i][1]
                        /\ \A h \in 1..(j - 1) : kept[h][1] # kept[i][1]
        Before(j, i) == First(j) < First(i) \/ (First(j) = First(i) /\ j < i)
        Rank(i) == Cardinality({j \in 1..Len(kept) : Before(j, i)}) + 1
    IN  [n \in 1..Len(kept) |->
            LET i == CHOOSE i \in 1..Len(kept) : Rank(i) = n
            IN  [key |-> kept[i][1], value |-> kept[i][2]]]

\* urlencode(d, doseq=True): one pair for each value of each key, in order.
urlencode(d) == [n \in 1..Len(d) |-> <<d[n].key, d[n].value>>]

\* int(s) reads decimal numerals of this magnitude at most.
MaxInt == 8

\* Numerals int() accepts that str() never writes.
OtherNumerals == {[text |-> "02", n |-> 2], [text |-> "+1", n |-> 1]}

\* int(s) raises ValueError unless IsNumeral(s).
IsNumeral(s) ==
    \/ \E n \in -MaxInt..MaxInt : ToString(n) = s
    \/ \E e \in OtherNumerals : e.text = s

PyInt(s) ==
    IF \E n \in -MaxInt..MaxInt : ToString(n) = s
    THEN CHOOSE n \in -MaxInt..MaxInt : ToString(n) = s
    ELSE (CHOOSE e \in OtherNumerals : e.text = s).n

PyStr(n) == ToString(n)

PyMax(a, b) == IF a >= b THEN a ELSE b

-----------------------------------------------------------------------------
(* LightroomClient: the catalog-scoped operations *)

NoResult ==
    [value |-> JsonNone, resources |-> <<>>, cursor |-> PyNone,
     nextUrl |-> NoUrl, prevUrl |-> NoUrl, assetId |-> PyNone,
     swallowed |-> "none"]

\* What a call did: the memo afterwards, whether it memoized a catalog, the
\* requests it issued, the error it raised ("none": it returned), the status
\* the error carries, and what it returned.
Run(c, exchanges, raised, status, result) ==
    [memo |-> c.memo, fetched |-> c.fetched, reqs |-> c.reqs \o exchanges,
     raised |-> raised, status |-> status, result |-> result]

\* The call ends where the catalog id could not be had.
CatalogFailed(c) == Run(c, <<>>, c.raised, c.status, NoResult)

\* The call ends where its request raised.
RequestRetried(c, r) == Run(c, <<r.req, r.req>>, r.raised, r.status, NoResult)

RequestFailed(c, r) == Run(c, <<r.req>>, r.raised, r.status, NoResult)

\* page.get(..) on a value that is no dict.
NotAnObject(c, r) == Run(c, <<r.req>>, "AttributeError", 0, NoResult)

\* The call returns result after its request r.
Done(c, r, result) == Run(c, <<r.req>>, "none", 0, result)

\* page.get('base', self.API_BASE_URL)
PageBase(page) == IF page.base = NoUrl THEN API_BASE_URL ELSE page.base

\* get_catalog as a call of its own.
CatalogRun(c) ==
    [memo |-> c.memo, fetched |-> c.fetched, reqs |-> c.reqs,
     raised |-> c.raised, status |-> c.status,
     result |-> [NoResult EXCEPT !.value = c.value]]

get_catalog_call(token, memo, resp) == CatalogRun(get_catalog(token, memo, resp))

\* The text of a str in pieces: "&", "=", "+", "#", " " and a percent escape
\* are pieces of their own, and a run of other characters is one piece.
TextOfSeveral(pieces) ==
    LET text[i \in 0..Len(pieces)] == IF i = 0 THEN "" ELSE text[i - 1] \o pieces[i]
    IN  text[Len(pieces)]

\* The str of these pieces.
Text(pieces) == IF Len(pieces) = 1 THEN pieces[1] ELSE TextOfSeveral(pieces)

\* The strs of the model that have such characters.
Spelt ==
    {[text |-> "A&B", pieces |-> <<"A", "&", "B">>],
     [text |-> "A=B", pieces |-> <<"A", "=", "B">>],
     [text |-> "A+B", pieces |-> <<"A", "+", "B">>],
     [text |-> "A B", pieces |-> <<"A", " ", "B">>],
     [text |-> "A#B", pieces |-> <<"A", "#", "B">>],
     [text |-> "%41", pieces |-> <<"%41">>],
     [text |-> "A&limit=500", pieces |-> <<"A", "&", "limit", "=", "500">>]}

Pieces(s) ==
    IF \E e \in Spelt : e.text = s THEN (CHOOSE e \in Spelt : e.text = s).pieces
    ELSE <<s>>

\* The parts of a text between the pieces sep.
SplitAt(t, sep) ==
    LET at == SelectSeq([i \in 1..Len(t) |-> i], LAMBDA i : t[i] = sep)
        ends == <<0>> \o at \o <<Len(t) + 1>>
    IN  [k \in 1..(Len(at) + 1) |-> SubSeq(t, ends[k] + 1, ends[k + 1] - 1)]

\* unquote_plus of one piece: "+" is a space and an escape is its character.
Unquoted(piece) ==
    CASE piece = "+" -> " "
      [] piece = "%41" -> "A"
      [] OTHER -> piece

UnquotedText(t) == Text([i \in 1..Len(t) |-> Unquoted(t[i])])

\* key=value: the key ends at the first "=".
PairOf(t, eqs) ==
    IF eqs = <<>> THEN <<UnquotedText(t), "">>
    ELSE <<UnquotedText(SubSeq(t, 1, eqs[1] - 1)),
           UnquotedText(SubSeq(t, eqs[1] + 1, Len(t)))>>

\* The key=value pairs of a query text, as urlparse and parse_qsl read it:
\* the text ends at the first "#", the pairs are separated by "&".
PairsOf(parts) ==
    [i \in 1..Len(parts) |->
        PairOf(parts[i],
               SelectSeq([j \in 1..Len(parts[i]) |-> j], LAMBDA j : parts[i][j] = "="))]

QueryPairs(t) ==
    PairsOf(SelectSeq(SplitAt(SplitAt(t, "#")[1], "&"), LAMBDA part : part # <<>>))

\* The text after the first "#".
FragmentText(t) == Text(SubSeq(t, Len(SplitAt(t, "#")[1]) + 2, Len(t)))

\* The endpoint whose text is the path, "?" and the query text.
EndpointOfText(path, t) ==
    IF \E i \in 1..Len(t) : t[i] = "#"
    THEN [Endpoint(path, QueryPairs(t)) EXCEPT !.fragment = FragmentText(t)]
    ELSE Endpoint(path, QueryPairs(t))

\* lines 186-189: the albums endpoint; name_after is appended as it is.
QuotedEndpoint(catalog_id, limit, name_after) ==
    Endpoint(<<"catalogs", catalog_id, "albums">>,
             <<<<"limit", PyStr(limit)>>>>
             \o IF Truthy(name_after) THEN <<<<"name_after", name_after>>>> ELSE <<>>)

AlbumsEndpoint(catalog_id, limit, name_after) ==
    EndpointOfText(<<"catalogs", catalog_id, "albums">>,
                   <<"limit", "=", PyStr(limit)>>
                   \o IF Truthy(name_after)
                      THEN <<"&", "name_after", "=">> \o Pieces(name_after)
                      ELSE <<>>)

\* lines 206-208: the cursor in the parsed query of the next link.
NameAfterIn(qs) ==
    IF DictHas(qs, "name_after") THEN DictFirst(qs, "name_after") ELSE PyNone

\* lines 200-208: the cursor in the next link.
NameAfterOfAnyLink(page) ==
    CASE page.next.kind = "href"
           -> NameAfterIn(parse_qs(urljoin(PageBase(page), page.next.url).query))
      [] page.prev.kind = "href"
           -> NameAfterIn(parse_qs(urljoin(PageBase(page), page.prev.url).query))
      [] OTHER -> PyNone

NextNameAfter(page) ==
    IF page.next.kind # "href" THEN PyNone
    ELSE NameAfterIn(parse_qs(urljoin(PageBase(page), page.next.url).query))

\* lines 193-210
AlbumsPageOf(c, r) ==
    CASE r.raised # "none" -> RequestFailed(c, r)
      [] ~JsonTruthy(r.value) -> Done(c, r, NoResult)
      [] r.value.kind # "obj" -> NotAnObject(c, r)
      [] OTHER -> Done(c, r, [NoResult EXCEPT !.resources = r.value.resources,
                                              !.cursor = NextNameAfter(r.value)])

\* lines 180-210
AlbumsPageIn(token, limit, name_after, c, r2) ==
    IF c.raised # "none" THEN CatalogFailed(c)
    ELSE AlbumsPageOf(c, make_request("get_albums_page", token,
                                      AlbumsEndpoint(c.id, limit, name_after), r2))

\* lines 165-210
get_albums_page(token, limit, name_after, memo, r1, r2) ==
    AlbumsPageIn(token, limit, name_after, CatalogId(token, memo, r1), r2)

AlbumOf(c, r) ==
    IF r.raised # "none" THEN RequestFailed(c, r)
    ELSE Done(c, r, [NoResult EXCEPT !.value = r.value])

\* lines 224-230
AlbumIn(token, album_id, c, r2) ==
    IF c.raised # "none" THEN CatalogFailed(c)
    ELSE AlbumOf(c, make_request("get_album", token,
                                 Endpoint(<<"catalogs", c.id, "albums", album_id>>, <<>>),
                                 r2))

\* lines 212-230
get_album(token, album_id, memo, r1, r2) ==
    AlbumIn(token, album_id, CatalogId(token, memo, r1), r2)

\* line 277: new_offset = max(0, current_offset - current_limit)
UnflooredOffset(current_offset, current_limit) == current_offset - current_limit

NewOffset(current_offset, current_limit) ==
    PyMax(0, current_offset - current_limit)

\* lines 276-281: the rewritten URL, or None (NoUrl).
RewrittenPrev(page_url, qs, current_limit, current_offset) ==
    IF current_offset > 0
    THEN [page_url EXCEPT
             !.query = urlencode(DictSet(DictSet(qs, "offset",
                                                 PyStr(NewOffset(current_offset, current_limit))),
                                         "limit", PyStr(current_limit)))]
    ELSE NoUrl

\* lines 269-274: int() of both texts, or the fallback on ValueError.
PrevFromTexts(page_url, limit, qs, limit_text, offset_text) ==
    IF IsNumeral(limit_text) /\ IsNumeral(offset_text)
    THEN RewrittenPrev(page_url, qs, PyInt(limit_text), PyInt(offset_text))
    ELSE RewrittenPrev(page_url, qs, limit, 0)

\* lines 270-271: qs.get('limit', [limit])[0] and qs.get('offset', [0])[0]
PrevFromQuery(page_url, limit, qs) ==
    PrevFromTexts(page_url, limit, qs,
                  IF DictHas(qs, "limit") THEN DictFirst(qs, "limit") ELSE PyStr(limit),
                  IF DictHas(qs, "offset") THEN DictFirst(qs, "offset") ELSE "0")

\* lines 267-281: the previous page's URL computed from page_url; NoUrl is None.
SynthesizedPrev(page_url, limit) ==
    PrevFromQuery(page_url, limit, parse_qs(page_url.query))

\* lines 244-248: page_url is NoUrl when it is None or ''.
BuiltEndpoint(catalog_id, album_id, limit, page_url) ==
    Endpoint(<<"catalogs", catalog_id, "albums", album_id, "assets">>,
             <<<<"limit", PyStr(limit)>>>>)

AssetsEndpoint(catalog_id, album_id, limit, page_url) ==
    IF page_url # NoUrl THEN page_url
    ELSE Endpoint(<<"catalogs", catalog_id, "albums", album_id, "assets">>,
                  <<<<"limit", PyStr(limit)>>>>)

\* lines 250-251: if not page
AlsoIfNoResources(page) == ~JsonTruthy(page) \/ page.resources = <<>>

IsNoPage(page) == ~JsonTruthy(page)

\* lines 260-261
NextUrl(page) ==
    IF page.next.kind = "href" THEN urljoin(PageBase(page), page.next.url)
    ELSE NoUrl

\* lines 264-281
SynthesisFirst(page, limit, page_url) ==
    IF page_url # NoUrl /\ SynthesizedPrev(page_url, limit) # NoUrl
    THEN SynthesizedPrev(page_url, limit)
    ELSE IF page.prev.kind = "href" THEN urljoin(PageBase(page), page.prev.url)
    ELSE NoUrl

PrevUrl(page, limit, page_url) ==
    IF page.prev.kind = "href" THEN urljoin(PageBase(page), page.prev.url)
    ELSE IF page_url # NoUrl THEN SynthesizedPrev(page_url, limit)
    ELSE NoUrl

\* lines 250-283
AssetsPageOf(c, r, limit, page_url) ==
    CASE r.raised # "none" -> RequestFailed(c, r)
      [] IsNoPage(r.value) -> Done(c, r, NoResult)
      [] r.value.kind # "obj" -> NotAnObject(c, r)
      [] OTHER -> Done(c, r, [NoResult EXCEPT
                                 !.resources = r.value.resources,
                                 !.nextUrl = NextUrl(r.value),
                                 !.prevUrl = PrevUrl(r.value, limit, page_url)])

\* lines 238-283
AssetsPageIn(token, album_id, limit, page_url, c, r2) ==
    IF c.raised # "none" THEN CatalogFailed(c)
    ELSE AssetsPageOf(c, make_request("get_album_assets_page", token,
                                      AssetsEndpoint(c.id, album_id, limit, page_url),
                                      r2),
                      limit, page_url)

\* lines 233-283
get_album_assets_page(token, album_id, limit, page_url, memo, r1, r2) ==
    AssetsPageIn(token, album_id, limit, page_url, CatalogId(token, memo, r1), r2)

\* A resource of a page: a JSON object with its id and its asset's id (PyNone
\* when absent), or a value that is no object.
Resource(id, asset) == [obj |-> TRUE, id |-> id, asset |-> asset]

Malformed == [obj |-> FALSE, id |-> PyNone, asset |-> PyNone]

\* lines 308-313
FirstAssetOf(c, r) ==
    CASE r.raised # "none" -> RequestFailed(c, r)
      [] ~JsonTruthy(r.value) -> Done(c, r, NoResult)
      [] r.value.kind # "obj" -> NotAnObject(c, r)
      [] r.value.resources = <<>> -> Done(c, r, NoResult)
      [] ~r.value.resources[1].obj -> NotAnObject(c, r)
      [] OTHER -> Done(c, r, [NoResult EXCEPT !.assetId = r.value.resources[1].asset])

\* lines 298-313
FirstAssetIn(token, album_id, c, r2) ==
    IF c.raised # "none" THEN CatalogFailed(c)
    ELSE FirstAssetOf(c, make_request("get_album_first_asset", token,
                                      Endpoint(<<"catalogs", c.id, "albums", album_id, "assets">>,
                                               <<<<"limit", "1">>>>),
                                      r2))

\* lines 314-316: except Exception: return None
Propagates(run) == run

Swallows(run) ==
    [run EXCEPT !.raised = "none", !.status = 0,
                !.result = IF run.raised = "none" THEN run.result
                           ELSE [NoResult EXCEPT !.swallowed = run.raised]]

\* lines 285-316
get_album_first_asset(token, album_id, memo, r1, r2) ==
    Swallows(FirstAssetIn(token, album_id, CatalogId(token, memo, r1), r2))

\* lines 347-361
RenditionOf(c, url, token, r2, r) ==
    Run(c, <<Exchange("get_asset_rendition", token, url, r2, r.parsed)>>,
        r.raised, r.status, [NoResult EXCEPT !.value = r.value])

\* lines 331-361
RenditionIn(token, asset_id, rendition_type, c, r2) ==
    IF c.raised # "none" THEN CatalogFailed(c)
    ELSE RenditionOf(c, [API_BASE_URL EXCEPT
                            !.path = @ \o <<"catalogs", c.id, "assets", asset_id,
                                              "renditions", rendition_type>>],
                     token, r2, HandleResponse(r2, FALSE))

\* lines 318-361
get_asset_rendition(token, asset_id, rendition_type, memo, r1, r2) ==
    RenditionIn(token, asset_id, rendition_type, CatalogId(token, memo, r1), r2)

-----------------------------------------------------------------------------
(* Calls on one shared LightroomClient *)

NoArgs ==
    [album_id |-> PyNone, asset_id |-> PyNone, rendition_type |-> PyNone,
     limit |-> 0, name_after |-> PyNone, page_url |-> NoUrl]

GwCallInit ==
    [op |-> "none", token |-> PyNone, args |-> NoArgs, memoWas |-> JsonNone,
     raised |-> "none", status |-> 0, result |-> NoResult]

NoPrevCall == [op |-> "none", memoWas |-> JsonNone, nreqs |-> 0,
               raised |-> "none", result |-> NoResult]

\* The client's part of a step: the call op(token, args) ran as run.
ClientCall(op, token, args, run) ==
    /\ catalog' = run.memo
    /\ memoToken' = IF run.fetched THEN token ELSE memoToken
    /\ reqs' = run.reqs
    /\ gwCall' = [op |-> op, token |-> token, args |-> args, memoWas |-> catalog,
                  raised |-> run.raised, status |-> run.status,
                  result |-> run.result]
    /\ prevCall' = IF op = "get_catalog" /\ gwCall.op = "get_catalog"
                   THEN [op |-> gwCall.op, memoWas |-> gwCall.memoWas,
                         nreqs |-> Len(reqs), raised |-> gwCall.raised,
                         result |-> gwCall.result]
                   ELSE NoPrevCall

\* No input is drawn, and no answer is recorded.
NoInput == [page_url |-> NoUrl, limit |-> 0, resp |-> NotAsked]

\* No _get_paged_resources call has started.  unlogged is the number of the
\* call's requests that reqs does not hold, modulo 2.
DrainIdle ==
    [pc |-> "idle", page |-> JsonNone, resources |-> <<>>, raised |-> "none",
     unlogged |-> 0]

Tokens == {"tokA", "tokB"}

\* The threads that serve requests at one time.
Threads == {"t1", "t2"}

\* A thread that has not called get_catalog.  sawNone says that the test of
\* line 158 found self.catalog None; value is what _make_request returned.
ThreadIdle ==
    [pc |-> "idle", token |-> PyNone, sawNone |-> FALSE, value |-> JsonNone,
     raised |-> "none", returned |-> JsonNone]

NoThreads == [t \in Threads |-> ThreadIdle]

\* The upstream's answers in the runs of SpecGateway.
GwStatuses == {200, 304, 401, 404, 503}

Garbage == Body(<<>>, "garbage", JsonNone)

Wrapped(json) == Body(<<"while", "(", "1", ")", "{", "}">>, "json", json)

GwCatalogBodies ==
    {EmptyBody, Garbage}
    \cup {Wrapped(j) : j \in {EmptyObj, CatalogObj("c1"), CatalogObj("c2")}}

GwBase == Url("https", "lr.adobe.io", <<"v2", "">>, <<>>, "")

GwAlbumsPage ==
    JsonObj(PyNone, TRUE, <<Resource("a1", "x1")>>,
            HrefLink(Relative(<<"catalogs", "c1", "albums">>,
                              <<<<"limit", "8">>, <<"name_after", "Zebra">>>>)),
            NoLink, GwBase, FALSE)

GwPageBodies == {EmptyBody, Garbage, Wrapped(GwAlbumsPage)}

\* A page of albums with these links.
AlbumsPage(next, prev, other) ==
    JsonObj(PyNone, TRUE, <<Resource("a1", "x1")>>, next, prev, GwBase, other)

AlbumsLink(query) == HrefLink(Relative(<<"catalogs", "c1", "albums">>, query))

\* Pages of albums: next links with a name_after, without one, with a blank
\* one and with two; an absolute next href; a next link without href; no
\* next link, beside a prev link that has a name_after.
GwAlbumsPages ==
    {GwAlbumsPage,
     AlbumsPage(AlbumsLink(<<<<"limit", "8">>>>), NoLink, FALSE),
     AlbumsPage(AlbumsLink(<<<<"limit", "8">>, <<"name_after", "">>>>), NoLink, FALSE),
     AlbumsPage(AlbumsLink(<<<<"name_after", "Mango">>, <<"name_after", "Nut">>>>),
                NoLink, FALSE),
     AlbumsPage(HrefLink(Url("https", "lr.adobe.io", <<"v2", "catalogs", "c1", "albums">>,
                             <<<<"name_after", "Mango">>, <<"limit", "8">>>>, "")),
                AlbumsLink(<<<<"name_after", "Apple">>>>), TRUE),
     AlbumsPage(EmptyLink, NoLink, TRUE),
     AlbumsPage(NoLink, AlbumsLink(<<<<"name_after", "Apple">>>>), TRUE)}

GwAlbumsBodies ==
    {EmptyBody, Garbage, Wrapped(EmptyObj)} \cup {Wrapped(page) : page \in GwAlbumsPages}

Responses(statuses, bodies) ==
    {Response(s, b) : s \in statuses, b \in bodies} \cup {TransportError}

\* The page_urls a caller passes: none, the URL of a page under the API base,
\* and a URL of another host.
ApiPageUrl ==
    Url("https", "lr.adobe.io", <<"v2", "catalogs", "c2", "albums", "a1", "assets">>,
        <<<<"limit", "2">>, <<"offset", "2">>>>, "")

ForeignPageUrl ==
    Url("https", "files.example", <<"v2", "catalogs", "c2", "albums", "a1", "assets">>,
        <<<<"limit", "2">>, <<"offset", "2">>>>, "")

GwPageUrls == {NoUrl, ApiPageUrl, ForeignPageUrl}

\* The answers the /catalog request of a call can get: none is asked for
\* when the catalog is memoized.
CatalogAnswers(answers) == IF IsMemoized(catalog) THEN {NotAsked} ELSE answers

\* The answers the second request of a call can get: none is asked for when
\* the catalog id could not be had.
SecondAnswers(token, r1, answers) ==
    IF CatalogId(token, catalog, r1).raised = "none" THEN answers ELSE {NotAsked}

GetCatalog(catalogAnswers) ==
    \E token \in Tokens, r1 \in CatalogAnswers(catalogAnswers) :
        ClientCall("get_catalog", token, NoArgs, get_catalog_call(token, catalog, r1))

GetAlbumsPage(catalogAnswers, pageAnswers) ==
    \E token \in Tokens, name_after \in {PyNone, "Zebra"},
       r1 \in CatalogAnswers(catalogAnswers) :
        \E r2 \in SecondAnswers(token, r1, pageAnswers) :
            /\ ClientCall("get_albums_page", token,
                          [NoArgs EXCEPT !.limit = 8, !.name_after = name_after],
                          get_albums_page(token, 8, name_after, catalog, r1, r2))
            /\ input' = [NoInput EXCEPT !.resp = r2]

GetAlbum(catalogAnswers, pageAnswers) ==
    \E token \in Tokens, r1 \in CatalogAnswers(catalogAnswers) :
        \E r2 \in SecondAnswers(token, r1, pageAnswers) :
            ClientCall("get_album", token, [NoArgs EXCEPT !.album_id = "a1"],
                       get_album(token, "a1", catalog, r1, r2))

GetAlbumAssetsPage(catalogAnswers, pageAnswers, pageUrls) ==
    \E token \in Tokens, page_url \in pageUrls,
       r1 \in CatalogAnswers(catalogAnswers) :
        \E r2 \in SecondAnswers(token, r1, pageAnswers) :
            ClientCall("get_album_assets_page", token,
                       [NoArgs EXCEPT !.album_id = "a1", !.limit = 2,
                                      !.page_url = page_url],
                       get_album_assets_page(token, "a1", 2, page_url, catalog, r1, r2))

GetAlbumFirstAsset(catalogAnswers, pageAnswers) ==
    \E token \in Tokens, r1 \in CatalogAnswers(catalogAnswers) :
        \E r2 \in SecondAnswers(token, r1, pageAnswers) :
            ClientCall("get_album_first_asset", token,
                       [NoArgs EXCEPT !.album_id = "a1"],
                       get_album_first_asset(token, "a1", catalog, r1, r2))

GetAssetRendition(catalogAnswers, pageAnswers) ==
    \E token \in Tokens, rendition_type \in {"2048"},
       r1 \in CatalogAnswers(catalogAnswers) :
        \E r2 \in SecondAnswers(token, r1, pageAnswers) :
            ClientCall("get_asset_rendition", token,
                       [NoArgs EXCEPT !.asset_id = "x1",
                                      !.rendition_type = rendition_type],
                       get_asset_rendition(token, "x1", rendition_type, catalog, r1, r2))

-----------------------------------------------------------------------------
(* app.py: the routes, on the one oauth_handler and the one                *)
(* lightroom_client of the process                                         *)

\* lines 31-32, with the defaults of the environment variables.
ALBUMS_PER_PAGE == 8

PHOTOS_PER_PAGE == 20

\* line 243
AllowsOriginal == {"thumbnail", "thumbnail2x", "640", "1280", "1920", "2048", "2560",
                   "original"}

allowed_types ==
    {"thumbnail", "thumbnail2x", "640", "1280", "1920", "2048", "2560"}

\* The browser sessions: each has its own signed cookie.
Sessions == {"s1", "s2"}

\* 'access_token' in session
AnySession(s) == TRUE

LoggedIn(s) == session[s] # PyNone

WebCallInit ==
    [route |-> "none", sid |-> PyNone, code |-> 0, location |-> PyNone,
     error |-> "none", page_url |-> NoUrl, type |-> PyNone,
     rendition_type |-> PyNone,
     albums |-> <<>>, cursor |-> PyNone, photos |-> <<>>, asset_ids |-> <<>>,
     nextUrl |-> NoUrl, prevUrl |-> NoUrl]

\* The response of a route: its status code, and what it carries.
Served(route, s, code) ==
    [WebCallInit EXCEPT !.route = route, !.sid = s, !.code = code]

Redirect(route, s, location) ==
    [Served(route, s, 302) EXCEPT !.location = location]

\* except Exception as e: ... 500
Failed(route, s, error) == [Served(route, s, 500) EXCEPT !.error = error]

\* The step calls no method of the oauth_handler.
NoHandlerCall ==
    /\ authCall' = AuthCallInit
    /\ UNCHANGED <<state, nonces, builds, usedStates>>

\* The step calls no method of the lightroom_client.
NoClientCall ==
    /\ reqs' = <<>>
    /\ UNCHANGED <<catalog, memoToken, gwCall, prevCall>>

\* The route answers from the session alone.
Answers(call) ==
    /\ webCall' = call
    /\ NoHandlerCall
    /\ NoClientCall
    /\ UNCHANGED session

\* The client's part of a step of session s whose calls ran as run.
ClientRuns(s, run) ==
    /\ catalog' = run.memo
    /\ memoToken' = IF run.fetched THEN session[s] ELSE memoToken
    /\ reqs' = run.reqs
    /\ UNCHANGED <<gwCall, prevCall>>

\* lines 48-53
index(s) ==
    Answers(Redirect("index", s, IF LoggedIn(s) THEN "albums" ELSE "login"))

\* lines 56-62
login(s) ==
    Answers(IF LoggedIn(s) THEN Redirect("login", s, "albums")
            ELSE Served("login", s, 200))

\* lines 65-72
oauth_start(s) ==
    IF LoggedIn(s)
    THEN Answers(Redirect("oauth_start", s, "albums"))
    ELSE /\ get_authorization_url
         /\ webCall' = Redirect("oauth_start", s, "authorize")
         /\ NoClientCall
         /\ UNCHANGED session

\* lines 92-94: token_data['access_token'] is there when the token endpoint
\* answered with a token object.
Granted(call) == call.outcome = "ok" /\ call.detail = "token"

\* lines 98-101: the exception the route answers 500 for.
CallbackError(call) ==
    CASE call.outcome # "ok" -> call.outcome
      [] call.detail = "non_obj" -> "TypeError"
      [] OTHER -> "KeyError"

\* lines 75-101: the callback with these query parameters, when the token
\* endpoint answers resp and the token it grants is tok.
callback(s, error, code, provided, resp, tok) ==
    IF Truthy(error) \/ ~Truthy(code)
    THEN Answers(Served("callback", s, 400))
    ELSE /\ get_access_token(provided, resp)
         /\ session' = IF Granted(authCall') THEN [session EXCEPT ![s] = tok]
                       ELSE session
         /\ webCall' = IF Granted(authCall') THEN Redirect("callback", s, "albums")
                       ELSE Failed("callback", s, CallbackError(authCall'))
         /\ NoClientCall

\* lines 262-266: session.clear(); the lightroom_client is not touched.
DropsCatalog(memo) == JsonNone

CatalogAfterLogout(memo) == memo

logout(s) ==
    /\ session' = [session EXCEPT ![s] = PyNone]
    /\ catalog' = CatalogAfterLogout(catalog)
    /\ webCall' = Redirect("logout", s, "login")
    /\ reqs' = <<>>
    /\ NoHandlerCall
    /\ UNCHANGED <<memoToken, gwCall, prevCall>>

\* lines 115-116: album.get('id') raises AttributeError on the first
\* resource that is no object; the loop stops there.
FirstMalformed(rs) ==
    IF \E i \in 1..Len(rs) : ~rs[i].obj
    THEN CHOOSE i \in 1..Len(rs) : ~rs[i].obj /\ \A j \in 1..(i - 1) : rs[j].obj
    ELSE Len(rs) + 1

\* lines 115-117: the places of the albums the loop enriches.
Enriched(rs) ==
    SelectSeq([i \in 1..(FirstMalformed(rs) - 1) |-> i], LAMBDA i : Truthy(rs[i].id))

\* The first-asset requests of a listing: none when the page request raised.
ToEnrich(run) == IF run.raised # "none" THEN <<>> ELSE Enriched(run.result.resources)

\* lines 117-119: get_album_first_asset for each enriched album, the k-th
\* request answered by f[k].  The catalog is memoized by then.
FirstAssetRuns(token, memo, rs, f) ==
    [k \in 1..Len(Enriched(rs)) |->
        get_album_first_asset(token, rs[Enriched(rs)[k]].id, memo, NotAsked, f[k])]

\* What the lookup for the i-th album returned; NoResult where there was
\* none.
FirstAssetResult(rs, runs, i) ==
    IF \E k \in 1..Len(runs) : Enriched(rs)[k] = i
    THEN runs[CHOOSE k \in 1..Len(runs) : Enriched(rs)[k] = i].result
    ELSE NoResult

\* line 119: album['first_asset_id'], None where none was assigned; warning
\* is the error that line 315 logged for the album, "none" where it logged
\* none.
EnrichedAlbum(id, result) ==
    [id |-> id, first_asset_id |-> result.assetId, warning |-> result.swallowed]

\* lines 108-119, 145-160: the page of albums and its enrichment.
Enrich(run, rs, runs) ==
    [memo |-> run.memo, fetched |-> run.fetched,
     reqs |-> run.reqs \o [k \in 1..Len(runs) |-> runs[k].reqs[1]],
     raised |-> IF FirstMalformed(rs) <= Len(rs) THEN "AttributeError" ELSE "none",
     albums |-> [i \in 1..Len(rs) |->
                    EnrichedAlbum(rs[i].id, FirstAssetResult(rs, runs, i))],
     cursor |-> run.result.cursor]

Listing(token, run, f) ==
    IF run.raised # "none"
    THEN [memo |-> run.memo, fetched |-> run.fetched, reqs |-> run.reqs,
          raised |-> run.raised, albums |-> <<>>, cursor |-> PyNone]
    ELSE Enrich(run, run.result.resources,
                FirstAssetRuns(token, run.memo, run.result.resources, f))

\* lines 121-129: the template gets every album of the page.
albums_page(s, l) ==
    /\ ClientRuns(s, l)
    /\ webCall' = IF l.raised # "none" THEN Failed("albums", s, l.raised)
                  ELSE [Served("albums", s, 200) EXCEPT !.albums = l.albums,
                                                        !.cursor = l.cursor]
    /\ NoHandlerCall
    /\ UNCHANGED session

\* lines 104-129
albums(s, r1, r2, f) ==
    IF ~LoggedIn(s) THEN Answers(Redirect("albums", s, "login"))
    ELSE albums_page(s, Listing(session[s],
                                get_albums_page(session[s], ALBUMS_PER_PAGE, PyNone,
                                                catalog, r1, r2),
                                f))

\* lines 150-167: the JSON gets the albums that have an id.
albums_json(s, l) ==
    /\ ClientRuns(s, l)
    /\ webCall' = IF l.raised # "none" THEN Failed("albums_api", s, l.raised)
                  ELSE [Served("albums_api", s, 200) EXCEPT
                           !.albums = SelectSeq(l.albums, LAMBDA a : Truthy(a.id)),
                           !.cursor = l.cursor]
    /\ NoHandlerCall
    /\ UNCHANGED session

\* lines 132-167
albums_api(s, name_after, r1, r2, f) ==
    CASE ~LoggedIn(s) -> Answers(Served("albums_api", s, 401))
      [] ~Truthy(name_after) -> Answers(Served("albums_api", s, 400))
      [] OTHER ->
            albums_json(s, Listing(session[s],
                                   get_albums_page(session[s], ALBUMS_PER_PAGE,
                                                   name_after, catalog, r1, r2),
                                   f))

\* One client call after another in one route.
AndThen(run1, run2) ==
    [memo |-> run2.memo, fetched |-> run1.fetched \/ run2.fetched,
     reqs |-> run1.reqs \o run2.reqs, raised |-> run2.raised,
     status |-> run2.status, result |-> run2.result]

\* lines 181-185: get_album, then get_album_assets_page unless it raised.
AlbumViewRun(token, album_id, page_url, run1, r3) ==
    IF run1.raised # "none" THEN run1
    ELSE AndThen(run1, get_album_assets_page(token, album_id, PHOTOS_PER_PAGE,
                                             page_url, run1.memo, NotAsked, r3))

gallery(s, page_url, run) ==
    /\ ClientRuns(s, run)
    /\ webCall' = IF run.raised # "none"
                  THEN [Failed("album_view", s, run.raised) EXCEPT !.page_url = page_url]
                  ELSE [Served("album_view", s, 200) EXCEPT
                           !.page_url = page_url,
                           !.photos = run.result.resources,
                           !.nextUrl = run.result.nextUrl,
                           !.prevUrl = run.result.prevUrl]
    /\ NoHandlerCall
    /\ UNCHANGED session

\* lines 170-196; page_url is NoUrl when the parameter is absent or empty.
album_view(s, album_id, page_url, r1, r2, r3) ==
    IF ~LoggedIn(s) THEN Answers(Redirect("album_view", s, "login"))
    ELSE gallery(s, page_url,
                 AlbumViewRun(session[s], album_id, page_url,
                              get_album(session[s], album_id, catalog, r1, r2), r3))

\* lines 213-221: photo.get('asset', {}) raises AttributeError on a resource
\* that is no object; the photos that have an asset id are kept.
photos_json(s, page_url, run) ==
    /\ ClientRuns(s, run)
    /\ webCall' =
           CASE run.raised # "none" ->
                    [Failed("album_photos_api", s, run.raised) EXCEPT !.page_url = page_url]
             [] FirstMalformed(run.result.resources) <= Len(run.result.resources) ->
                    [Failed("album_photos_api", s, "AttributeError") EXCEPT
                        !.page_url = page_url]
             [] OTHER ->
                    [Served("album_photos_api", s, 200) EXCEPT
                        !.page_url = page_url,
                        !.asset_ids = SelectSeq([i \in 1..Len(run.result.resources) |->
                                                    run.result.resources[i].asset],
                                                Truthy),
                        !.nextUrl = run.result.nextUrl]
    /\ NoHandlerCall
    /\ UNCHANGED session

\* lines 199-231
album_photos_api(s, album_id, page_url, r1, r2) ==
    CASE ~LoggedIn(s) -> Answers(Served("album_photos_api", s, 401))
      [] page_url = NoUrl -> Answers(Served("album_photos_api", s, 400))
      [] OTHER ->
            photos_json(s, page_url,
                        get_album_assets_page(session[s], album_id, PHOTOS_PER_PAGE,
                                              page_url, catalog, r1, r2))

\* line 240: request.args.get('type', 'thumbnail2x'); PyNone is no parameter.
RenditionType(type) == IF type = PyNone THEN "thumbnail2x" ELSE type

\* lines 247-259; type is the parameter of the request.
image(s, type, run) ==
    /\ ClientRuns(s, run)
    /\ webCall' = IF run.raised # "none"
                  THEN [Failed("thumbnail", s, run.raised) EXCEPT
                           !.type = type, !.rendition_type = RenditionType(type)]
                  ELSE [Served("thumbnail", s, 200) EXCEPT
                           !.type = type, !.rendition_type = RenditionType(type)]
    /\ NoHandlerCall
    /\ UNCHANGED session

\* lines 234-259
thumbnail(s, asset_id, type, r1, r2) ==
    CASE ~LoggedIn(s) -> Answers(Served("thumbnail", s, 401))
      [] RenditionType(type) \notin allowed_types ->
            Answers([Served("thumbnail", s, 400) EXCEPT
                        !.type = type, !.rendition_type = RenditionType(type)])
      [] OTHER ->
            image(s, type,
                  get_asset_rendition(session[s], asset_id, RenditionType(type),
                                      catalog, r1, r2))

\* What the browsers and the upstream do in the runs of SpecWeb.
WebErrors == {PyNone, "access_denied"}

WebCodes == {PyNone, "code"}

\* The state parameter of a callback: none, a made-up value, or a value the
\* handler generated.
WebStates == {PyNone, "forged"} \cup {token_urlsafe(i) : i \in 1..nonces}

WebTokenResponses ==
    {r \in TokenResponses :
        \/ ~r.arrived
        \/ r.status = 200 /\ r.body \in {"token", "obj_none"}
        \/ r.status = 400 /\ r.body = "obj_err"}

Unauthorized == Response(401, EmptyBody)

WebCatalogAnswers ==
    {Response(200, Wrapped(CatalogObj("c1"))), Response(200, Wrapped(CatalogObj("c2"))),
     Unauthorized}

WebPage ==
    JsonObj("a1", TRUE, <<Resource("a1", "x1"), Resource("a2", PyNone)>>,
            HrefLink(Relative(<<"catalogs", "c1", "albums">>,
                              <<<<"limit", "8">>, <<"name_after", "Zebra">>>>)),
            NoLink, GwBase, FALSE)

WebPageAnswers == {Response(200, Wrapped(WebPage)), Unauthorized, TransportError}

WebAssetAnswers == {Response(200, Wrapped(WebPage)), Response(503, EmptyBody)}

\* Other answers to a first-asset request: 401, no response, a body that is
\* no JSON, and a page whose first resource is no object.
WebAssetFailures ==
    {Unauthorized, TransportError, Response(200, Garbage),
     Response(200, Wrapped(JsonObj(PyNone, TRUE, <<Malformed>>, NoLink, NoLink,
                                   GwBase, FALSE)))}

WebNameAfters == {PyNone, "Zebra"}

WebPageUrls == {NoUrl, ApiPageUrl}

WebTypes == {PyNone, "2048", "original"}

\* The answers a route's requests can get: none is asked for when the route
\* answers before it calls the client.
WebCatalog(calls) ==
    IF calls THEN CatalogAnswers(WebCatalogAnswers) ELSE {NotAsked}

WebSecond(calls, token, r1, answers) ==
    IF calls THEN SecondAnswers(token, r1, answers) ELSE {NotAsked}

\* The answers to the n lookups of a listing: answers of WebAssetAnswers, or
\* an answer of WebAssetFailures to the first one and a page to the others.
FirstAssetAnswers(n) ==
    [1..n -> WebAssetAnswers]
    \cup IF n = 0 THEN {}
         ELSE {[k \in 1..n |-> IF k = 1 THEN bad ELSE Response(200, Wrapped(WebPage))] :
                  bad \in WebAssetFailures}

WebFirstAssets(calls, token, limit, name_after, r1, r2) ==
    IF calls
    THEN FirstAssetAnswers(Len(ToEnrich(get_albums_page(token, limit, name_after,
                                                        catalog, r1, r2))))
    ELSE {<<>>}

WebThird(calls, token, album_id, r1, r2) ==
    IF calls /\ get_album(token, album_id, catalog, r1, r2).raised = "none"
    THEN WebPageAnswers ELSE {NotAsked}

Index == \E s \in Sessions : index(s)

Login == \E s \in Sessions : login(s)

OAuthStart == \E s \in Sessions : oauth_start(s)

\* The token endpoint answers only when the route posts to it.
Callback ==
    \E s \in Sessions, error \in WebErrors, code \in WebCodes :
        \E provided \in IF Truthy(error) \/ ~Truthy(code) THEN {PyNone} ELSE WebStates :
            \E resp \in IF Truthy(error) \/ ~Truthy(code) \/ StateRejected(provided, state)
                         THEN {NoResponse}
                         ELSE WebTokenResponses :
            \E tok \in IF resp.arrived /\ resp.body = "token" THEN Tokens ELSE {PyNone} :
                callback(s, error, code, provided, resp, tok)

Albums ==
    \E s \in Sessions :
        \E r1 \in WebCatalog(LoggedIn(s)) :
            \E r2 \in WebSecond(LoggedIn(s), session[s], r1, WebPageAnswers) :
                \E f \in WebFirstAssets(LoggedIn(s), session[s], ALBUMS_PER_PAGE,
                                        PyNone, r1, r2) :
                    albums(s, r1, r2, f)

AlbumsApi ==
    \E s \in Sessions, name_after \in WebNameAfters :
        \E r1 \in WebCatalog(LoggedIn(s) /\ Truthy(name_after)) :
            \E r2 \in WebSecond(LoggedIn(s) /\ Truthy(name_after), session[s], r1,
                                WebPageAnswers) :
                \E f \in WebFirstAssets(LoggedIn(s) /\ Truthy(name_after), session[s],
                                        ALBUMS_PER_PAGE, name_after, r1, r2) :
                    albums_api(s, name_after, r1, r2, f)

AlbumView ==
    \E s \in Sessions, page_url \in WebPageUrls :
        \E r1 \in WebCatalog(LoggedIn(s)) :
            \E r2 \in WebSecond(LoggedIn(s), session[s], r1, WebPageAnswers) :
                \E r3 \in WebThird(LoggedIn(s), session[s], "a1", r1, r2) :
                    album_view(s, "a1", page_url, r1, r2, r3)

AlbumPhotosApi ==
    \E s \in Sessions, page_url \in WebPageUrls :
        \E r1 \in WebCatalog(LoggedIn(s) /\ page_url # NoUrl) :
            \E r2 \in WebSecond(LoggedIn(s) /\ page_url # NoUrl, session[s], r1,
                                WebPageAnswers) :
                album_photos_api(s, "a1", page_url, r1, r2)

Thumbnail ==
    \E s \in Sessions, type \in WebTypes :
        \E r1 \in WebCatalog(LoggedIn(s) /\ RenditionType(type) \in allowed_types) :
            \E r2 \in WebSecond(LoggedIn(s) /\ RenditionType(type) \in allowed_types,
                                session[s], r1, WebPageAnswers) :
                thumbnail(s, "x1", type, r1, r2)

Logout == \E s \in Sessions : logout(s)

-----------------------------------------------------------------------------
(* Pages of an album's assets, by page_url *)

\* Pairs in the query of a page_url.
MaxPairs == 3

PageKeys == {"offset", "limit", "a"}

PageValues == {"", "0", "2", "5", "x"}

\* The queries of at most MaxPairs key=value pairs.
PageQueries ==
    UNION {[1..n -> PageKeys \X PageValues] : n \in 0..MaxPairs}

PageUrlOf(query) ==
    Url("https", "lr.adobe.io", <<"v2", "catalogs", "c1", "albums", "a1", "assets">>,
        query, "")

\* A page of assets with these links.
AssetsPage(next, prev) ==
    JsonObj(PyNone, TRUE, <<Resource("r1", "x1")>>, next, prev, GwBase, FALSE)

UpstreamPrev ==
    HrefLink(Relative(<<"catalogs", "c1", "albums", "a1", "assets">>,
                      <<<<"offset", "0">>, <<"limit", "2">>>>))

UpstreamNext ==
    HrefLink(Relative(<<"catalogs", "c1", "albums", "a1", "assets">>,
                      <<<<"offset", "4">>, <<"limit", "2">>>>))

\* The upstream's answers to a page request: a page with no prev link, a
\* page with one, and the empty object.
PageResponses ==
    {Response(200, Wrapped(AssetsPage(NoLink, NoLink))),
     Response(200, Wrapped(AssetsPage(NoLink, UpstreamPrev))),
     Response(200, Wrapped(EmptyObj))}

\* Pages with each combination of a next link and a prev link: none, one
\* without href, one with href.
LinkResponses ==
    {Response(200, Wrapped(AssetsPage(next, prev))) :
        next \in {NoLink, EmptyLink, UpstreamNext},
        prev \in {NoLink, EmptyLink, UpstreamPrev}}

PageLimit == 3

\* A page_url that is no absolute URL: a path that starts with "/", and one
\* that does not.
RelativePageUrls ==
    {Endpoint(<<"catalogs", "c1", "albums", "a1", "assets">>, q) :
        q \in {<<>>, <<<<"offset", "2">>, <<"limit", "2">>>>}}
    \cup {Relative(<<"catalogs", "c1", "albums", "a1", "assets">>,
                   <<<<"offset", "2">>>>)}

\* Every page_url of PageQueries at the limit PageLimit, for the answers of
\* PageResponses; no page_url, three page_urls of PageQueries and the
\* page_urls that are no absolute URL, at two limits, for these answers and
\* those of LinkResponses.
PageInputs ==
    {[page_url |-> PageUrlOf(q), limit |-> PageLimit, resp |-> r] :
        q \in PageQueries, r \in PageResponses}
    \cup {[page_url |-> u, limit |-> l, resp |-> r] :
             u \in {NoUrl} \cup RelativePageUrls
                   \cup {PageUrlOf(q) : q \in {<<>>, <<<<"offset", "2">>>>,
                                                <<<<"offset", "5">>, <<"limit", "2">>>>}},
             l \in {1, PageLimit},
             r \in PageResponses \cup LinkResponses}

\* Prefixes that are no variant of while(1){}: whitespace before the word,
\* and a wrapper cut short.
OtherPrefixes == {<<" ", "while", "(", "1", ")", "{", "}">>, <<"while", "(", "1", ")">>}

\* Bodies: no prefix, a variant of while(1){} or another prefix, followed by
\* nothing, by text that is no JSON, or by the JSON of a page, of {} or null.
EnvelopeBodies ==
    {Body(p, "json", j) :
        p \in {<<>>} \cup While1Prefixes \cup OtherPrefixes,
        j \in {AssetsPage(UpstreamNext, UpstreamPrev), EmptyObj, JsonNone}}
    \cup {Body(p, k, JsonNone) :
             p \in {<<>>} \cup While1Prefixes \cup OtherPrefixes,
             k \in {"empty", "garbage"}}

EnvelopeInputs ==
    {[page_url |-> NoUrl, limit |-> PageLimit, resp |-> Response(200, b)] :
        b \in EnvelopeBodies}

PageCatalog == Response(200, Wrapped(CatalogObj("c1")))

\* get_album_assets_page(token, album_id, limit, page_url) on the input.
LoadPage ==
    \E r1 \in CatalogAnswers({PageCatalog}) :
        /\ ClientCall("get_album_assets_page", "tokA",
                      [NoArgs EXCEPT !.album_id = "a1", !.limit = input.limit,
                                     !.page_url = input.page_url],
                      get_album_assets_page("tokA", "a1", input.limit, input.page_url,
                                            catalog, r1, input.resp))
        /\ UNCHANGED <<authVars, webVars, input, drain, threads>>

\* The caller follows the prev_url the last call returned.
LoadPrevPage ==
    /\ gwCall.op = "get_album_assets_page"
    /\ gwCall.result.prevUrl # NoUrl
    /\ \E resp \in PageResponses :
           /\ input' = [input EXCEPT !.page_url = gwCall.result.prevUrl, !.resp = resp]
           /\ ClientCall("get_album_assets_page", "tokA",
                         [NoArgs EXCEPT !.album_id = "a1", !.limit = input.limit,
                                        !.page_url = gwCall.result.prevUrl],
                         get_album_assets_page("tokA", "a1", input.limit,
                                               gwCall.result.prevUrl, catalog,
                                               NotAsked, resp))
    /\ UNCHANGED <<authVars, webVars, drain, threads>>

-----------------------------------------------------------------------------
(* Specifications *)

\* The program when app.py has built its OAuthHandler and its LightroomClient.
Init ==
    /\ state = PyNone          \* oauth_handler.py, line 47
    /\ nonces = 0
    /\ builds = 0
    /\ usedStates = {}
    /\ authCall = AuthCallInit
    /\ catalog = JsonNone      \* lightroom_client.py, line 20
    /\ memoToken = PyNone
    /\ reqs = <<>>
    /\ gwCall = GwCallInit
    /\ prevCall = NoPrevCall
    /\ session = [s \in Sessions |-> PyNone]
    /\ webCall = WebCallInit
    /\ input = NoInput
    /\ drain = DrainIdle
    /\ threads = NoThreads

\* Calls on one OAuthHandler, in any order.
SpecAuth == Init /\ [][AuthNext]_vars

GwCatalogAnswers == Responses(GwStatuses, GwCatalogBodies)

GwPageAnswers == Responses(GwStatuses, GwPageBodies)

GwAlbumsAnswers == Responses(GwStatuses, GwAlbumsBodies)

\* Calls on one LightroomClient, in any order, with any token.  input holds
\* the answer to the page request of a get_albums_page call.
GwNext ==
    \/ GetCatalog(GwCatalogAnswers) /\ input' = NoInput /\ UNCHANGED <<authVars, webVars, drain, threads>>
    \/ GetAlbumsPage(GwCatalogAnswers, GwAlbumsAnswers) /\ UNCHANGED <<authVars, webVars, drain, threads>>
    \/ GetAlbum(GwCatalogAnswers, GwPageAnswers) /\ input' = NoInput /\ UNCHANGED <<authVars, webVars, drain, threads>>
    \/ GetAlbumAssetsPage(GwCatalogAnswers, GwPageAnswers, GwPageUrls) /\ input' = NoInput /\ UNCHANGED <<authVars, webVars, drain, threads>>
    \/ GetAlbumFirstAsset(GwCatalogAnswers, GwPageAnswers) /\ input' = NoInput /\ UNCHANGED <<authVars, webVars, drain, threads>>
    \/ GetAssetRendition(GwCatalogAnswers, GwPageAnswers) /\ input' = NoInput /\ UNCHANGED <<authVars, webVars, drain, threads>>

SpecGateway == Init /\ [][GwNext]_vars

\* Requests of several browser sessions to the routes, one at a time, in any
\* order.
WebNext ==
    \/ Index /\ UNCHANGED <<input, drain, threads>>
    \/ Login /\ UNCHANGED <<input, drain, threads>>
    \/ OAuthStart /\ UNCHANGED <<input, drain, threads>>
    \/ Callback /\ UNCHANGED <<input, drain, threads>>
    \/ Albums /\ UNCHANGED <<input, drain, threads>>
    \/ AlbumsApi /\ UNCHANGED <<input, drain, threads>>
    \/ AlbumView /\ UNCHANGED <<input, drain, threads>>
    \/ AlbumPhotosApi /\ UNCHANGED <<input, drain, threads>>
    \/ Thumbnail /\ UNCHANGED <<input, drain, threads>>
    \/ Logout /\ UNCHANGED <<input, drain, threads>>

SpecWeb == Init /\ [][WebNext]_vars

\* The program after construction, about to load the page of some page_url.
InitPage ==
    /\ state = PyNone
    /\ nonces = 0
    /\ builds = 0
    /\ usedStates = {}
    /\ authCall = AuthCallInit
    /\ catalog = JsonNone
    /\ memoToken = PyNone
    /\ reqs = <<>>
    /\ gwCall = GwCallInit
    /\ prevCall = NoPrevCall
    /\ session = [s \in Sessions |-> PyNone]
    /\ webCall = WebCallInit
    /\ input \in PageInputs \cup EnvelopeInputs
    /\ drain = DrainIdle
    /\ threads = NoThreads

PageNext == LoadPage \/ LoadPrevPage

\* get_album_assets_page with a page_url, and then with the prev_url it
\* returns, for every page_url of PageInputs.
SpecPage == InitPage /\ [][PageNext]_vars

-----------------------------------------------------------------------------
(* The eager drain: _get_paged_resources *)

\* How many cursors the upstream of a drain serves.
MaxChain == 3

DrainCursors == 1..MaxChain

CursorQuery(k) == <<<<"name_after", "p" \o ToString(k)>>>>

\* The initial_endpoint of the drain: the page of the first cursor.
InitialEndpoint == Endpoint(<<"catalogs", "c1", "albums">>, CursorQuery(1))

\* The URL under which the upstream serves the page of cursor k.
CursorUrl(k) == RequestUrl(Endpoint(<<"catalogs", "c1", "albums">>, CursorQuery(k)))

\* A next link to the page of cursor k, relative to the page's base.
CursorLink(k) == HrefLink(Relative(<<"catalogs", "c1", "albums">>, CursorQuery(k)))

\* The page of cursor k: its resources (none, or one that is its own) and
\* its next link.
DrainPage(k, filled, next) ==
    JsonObj(PyNone, TRUE,
            IF filled THEN <<Resource("r" \o ToString(k), PyNone)>> ELSE <<>>,
            next, NoLink, GwBase, FALSE)

\* What the upstream may serve under cursor k: a page with any next link,
\* an empty body, or a refusal.
CursorAnswers(k) ==
    {Response(200, Wrapped(DrainPage(k, filled, next))) :
         filled \in BOOLEAN,
         next \in {NoLink, EmptyLink} \cup {CursorLink(j) : j \in DrainCursors}}
    \cup {Response(200, EmptyBody), Unauthorized}

\* A chain whose next links all lead to a later cursor.
LeadsForward(chain) ==
    \A k \in DrainCursors :
        /\ chain[k].status = 200
        /\ chain[k].body.kind = "json"
        => \A j \in 1..k : chain[k].body.json.next # CursorLink(j)

\* A chain none of whose pages has resources.
Hollow(chain) ==
    \A k \in DrainCursors :
        /\ chain[k].status = 200
        /\ chain[k].body.kind = "json"
        => chain[k].body.json.resources = <<>>

\* The upstreams of a drain: what each cursor serves, the same at every
\* request.  A chain that leads back to a cursor has no resources, so that
\* the list of a drain that never ends does not grow.
Chains ==
    {chain \in [DrainCursors -> UNION {CursorAnswers(k) : k \in DrainCursors}] :
         /\ \A k \in DrainCursors : chain[k] \in CursorAnswers(k)
         /\ LeadsForward(chain) \/ Hollow(chain)}

\* The upstream's answer to the request of url.
Upstream(url) == input.chain[CHOOSE k \in DrainCursors : CursorUrl(k) = url]

\* lines 129 and 144: resources.extend(page.get('resources', []))
ReplacedBy(resources, more) == more

Extend(resources, more) == resources \o more

\* lines 125-129 and 140-144: the drain after the request r.  An error of
\* the request leaves the drain; no page ends it; any other page is kept
\* and its resources are added.
DrainAfter(resources, r) ==
    CASE r.raised # "none"
           -> [DrainIdle EXCEPT !.pc = "raised", !.raised = r.raised]
      [] ~JsonTruthy(r.value)
           -> [DrainIdle EXCEPT !.pc = "returned", !.resources = resources]
      [] r.value.kind # "obj"
           -> [DrainIdle EXCEPT !.pc = "raised", !.raised = "AttributeError"]
      [] OTHER
           -> [DrainIdle EXCEPT !.pc = "loop", !.page = r.value,
                                !.resources = Extend(resources, r.value.resources)]

\* The requests of a drain, as far as they are recorded: the first
\* MaxChain + 1 of them, which is enough to hold a cursor twice.
Logged(log, req) == IF Len(log) <= MaxChain THEN Append(log, req) ELSE log

Unlogged(log, n) == IF Len(log) <= MaxChain THEN n ELSE 1 - n

\* The drain takes the outcome r of a request.
DrainRequest(r) ==
    /\ drain' = [DrainAfter(drain.resources, r) EXCEPT
                     !.unlogged = Unlogged(reqs, drain.unlogged)]
    /\ reqs' = Logged(reqs, r.req)

\* lines 132-135: the loop goes on while the page has a next link with an
\* href.
HasNext(page) == page.next.kind = "href"

\* lines 124-129: the call and its first request.
StartDrain ==
    /\ drain.pc = "idle"
    /\ DrainRequest(make_request("_get_paged_resources", "tokA", InitialEndpoint,
                                 Upstream(RequestUrl(InitialEndpoint))))
    /\ UNCHANGED <<authVars, webVars, input, threads, catalog, memoToken, gwCall, prevCall>>

\* lines 132-146: one turn of the loop, or the return.  The next_url of
\* lines 137-138 is the NextUrl of the page.
FollowNext ==
    /\ drain.pc = "loop"
    /\ IF HasNext(drain.page)
       THEN DrainRequest(make_request("_get_paged_resources", "tokA",
                                      NextUrl(drain.page),
                                      Upstream(RequestUrl(NextUrl(drain.page)))))
       ELSE /\ drain' = [drain EXCEPT !.pc = "returned"]
            /\ UNCHANGED reqs
    /\ UNCHANGED <<authVars, webVars, input, threads, catalog, memoToken, gwCall, prevCall>>

\* The program after construction, about to drain some upstream.
InitDrain ==
    /\ state = PyNone
    /\ nonces = 0
    /\ builds = 0
    /\ usedStates = {}
    /\ authCall = AuthCallInit
    /\ catalog = JsonNone
    /\ memoToken = PyNone
    /\ reqs = <<>>
    /\ gwCall = GwCallInit
    /\ prevCall = NoPrevCall
    /\ session = [s \in Sessions |-> PyNone]
    /\ webCall = WebCallInit
    /\ input \in {[chain |-> chain] : chain \in Chains}
    /\ drain = DrainIdle
    /\ threads = NoThreads

DrainNext == StartDrain \/ FollowNext

\* One _get_paged_resources call, for every upstream of Chains.
SpecDrain == InitDrain /\ [][DrainNext]_vars

\* The call runs in one thread and nothing suspends it: a request that is
\* answered is followed by the next step of the loop.
SpecDrainFair == SpecDrain /\ WF_vars(DrainNext)

-----------------------------------------------------------------------------
(* get_catalog in concurrent request threads *)

\* app.run (app.py, line 292) serves each request in a thread of its own,
\* and the routes share one lightroom_client (app.py, line 45).  A thread
\* can be suspended between any two of the steps below.

ThreadStep(t, next) ==
    /\ threads' = [threads EXCEPT ![t] = next]
    /\ UNCHANGED <<authVars, webVars, input, drain, gwCall, prevCall>>

\* line 158: the call get_catalog(token) tests self.catalog.
CatalogTest(t) ==
    \E token \in Tokens :
        /\ threads[t].pc = "idle"
        /\ ThreadStep(t, [ThreadIdle EXCEPT
                              !.pc = IF IsMemoized(catalog) THEN "return" ELSE "request",
                              !.token = token,
                              !.sawNone = ~IsMemoized(catalog)])
        /\ UNCHANGED <<catalog, memoToken, reqs>>

\* The thread takes the outcome r of its /catalog request.
CatalogRequested(t, r) ==
    /\ reqs' = Append(reqs, r.req)
    /\ ThreadStep(t, [threads[t] EXCEPT
                          !.pc = IF r.raised = "none" THEN "store" ELSE "raised",
                          !.value = r.value,
                          !.raised = r.raised])
    /\ UNCHANGED <<catalog, memoToken>>

\* line 161, right-hand side: self._make_request(access_token, 'GET', '/catalog')
CatalogRequest(t) ==
    \E resp \in GwCatalogAnswers :
        /\ threads[t].pc = "request"
        /\ CatalogRequested(t, make_request("get_catalog", threads[t].token,
                                            Endpoint(<<"catalog">>, <<>>), resp))

\* line 161: self.catalog = ..
CatalogStore(t) ==
    /\ threads[t].pc = "store"
    /\ catalog' = threads[t].value
    /\ memoToken' = IF threads[t].value # JsonNone THEN threads[t].token
                    ELSE memoToken
    /\ ThreadStep(t, [threads[t] EXCEPT !.pc = "return"])
    /\ UNCHANGED reqs

\* lines 159 and 162: return self.catalog
CatalogReturn(t) ==
    /\ threads[t].pc = "return"
    /\ ThreadStep(t, [threads[t] EXCEPT !.pc = "returned", !.returned = catalog])
    /\ UNCHANGED <<catalog, memoToken, reqs>>

ThreadsNext ==
    \E t \in Threads :
        \/ CatalogTest(t)
        \/ CatalogRequest(t)
        \/ CatalogStore(t)
        \/ CatalogReturn(t)

\* One get_catalog call in each thread, interleaved in any way, on the
\* client after construction.
SpecThreads == Init /\ [][ThreadsNext]_vars

-----------------------------------------------------------------------------
(* Pages of albums, by cursor *)

\* The values of name_after in a next link: plain ones and the strs of Spelt.
Cursors == {"Zebra", "Mango"} \cup {e.text : e \in Spelt}

\* Pages of albums whose next link has one of these cursors, and the last
\* page.
CursorPages ==
    {AlbumsPage(AlbumsLink(<<<<"limit", "8">>, <<"name_after", c>>>>), NoLink, FALSE) :
         c \in Cursors}
    \cup {AlbumsPage(NoLink, NoLink, FALSE)}

CursorResponses == {Response(200, Wrapped(page)) : page \in CursorPages}

CursorInputs ==
    {[page_url |-> NoUrl, limit |-> l, resp |-> r] :
         l \in {1, PageLimit}, r \in CursorResponses}

\* get_albums_page(token, limit) on the input: the first page.
LoadAlbums ==
    /\ gwCall.op = "none"
    /\ \E r1 \in CatalogAnswers({PageCatalog}) :
           ClientCall("get_albums_page", "tokA",
                      [NoArgs EXCEPT !.limit = input.limit],
                      get_albums_page("tokA", input.limit, PyNone, catalog, r1,
                                      input.resp))
    /\ UNCHANGED <<authVars, webVars, input, drain, threads>>

\* The caller passes the cursor the last call returned as name_after.
FollowCursor ==
    /\ gwCall.op = "get_albums_page"
    /\ gwCall.result.cursor # PyNone
    /\ \E resp \in CursorResponses :
           /\ input' = [input EXCEPT !.resp = resp]
           /\ ClientCall("get_albums_page", "tokA",
                         [NoArgs EXCEPT !.limit = input.limit,
                                        !.name_after = gwCall.result.cursor],
                         get_albums_page("tokA", input.limit, gwCall.result.cursor,
                                         catalog, NotAsked, resp))
    /\ UNCHANGED <<authVars, webVars, drain, threads>>

\* The program after construction, about to list albums page after page.
InitCursor ==
    /\ state = PyNone
    /\ nonces = 0
    /\ builds = 0
    /\ usedStates = {}
    /\ authCall = AuthCallInit
    /\ catalog = JsonNone
    /\ memoToken = PyNone
    /\ reqs = <<>>
    /\ gwCall = GwCallInit
    /\ prevCall = NoPrevCall
    /\ session = [s \in Sessions |-> PyNone]
    /\ webCall = WebCallInit
    /\ input \in CursorInputs
    /\ drain = DrainIdle
    /\ threads = NoThreads

CursorNext == LoadAlbums \/ FollowCursor

\* get_albums_page without cursor, and then with the cursor each call
\* returns, for the pages of CursorPages.
SpecCursor == InitCursor /\ [][CursorNext]_vars

-----------------------------------------------------------------------------
(* The OAuth handler's state check: C1 to C5, under SpecAuth *)

\* C1: a get_access_token call given a state that is provided (a non-empty
\* string) and differs from the stored state raises the invalid-state error
\* and posts nothing to the token endpoint, whatever calls came before.
C1_MismatchedStateRejected ==
    (/\ authCall.op = "get_access_token"
     /\ Truthy(authCall.provided)
     /\ authCall.provided # authCall.stored)
        => (authCall.outcome = "InvalidState" /\ authCall.posts = 0)

\* The first generated state is presented after a second one replaced it.
C1_Witness ==
    /\ authCall.op = "get_access_token"
    /\ authCall.provided = token_urlsafe(1)
    /\ authCall.stored = token_urlsafe(2)
    /\ authCall.outcome = "InvalidState"
    /\ authCall.posts = 0

\* C2: once get_authorization_url has stored a state, a get_access_token call
\* with no state (None, or the empty string) raises the invalid-state error
\* and posts nothing to the token endpoint.
C2_MissingStateRejected ==
    (/\ authCall.op = "get_access_token"
     /\ authCall.stored # PyNone
     /\ ~Truthy(authCall.provided))
        => (authCall.outcome = "InvalidState" /\ authCall.posts = 0)

\* C3: a state value that one get_access_token call has accepted is rejected
\* when a later call presents it again with no get_authorization_url between
\* the two.
C3_StateConsumedOnce ==
    (authCall.op = "get_access_token" /\ authCall.replayed)
        => authCall.outcome = "InvalidState"

\* C4: get_authorization_url replaces the stored state.  At every moment the
\* only provided state the check lets pass is the one generated last; a call
\* that presents an earlier one raises the invalid-state error.
C4_OnlyLatestStateAccepted ==
    /\ \A s \in ProvidedStates :
           (Truthy(s) /\ ~StateRejected(s, state))
               => (nonces > 0 /\ s = token_urlsafe(nonces))
    /\ (/\ authCall.op = "get_access_token"
        /\ Truthy(authCall.provided)
        /\ authCall.outcome # "InvalidState")
           => (nonces > 0 /\ authCall.provided = token_urlsafe(nonces))
    /\ (/\ authCall.op = "get_access_token"
        /\ \E i \in 1..(nonces - 1) : authCall.provided = token_urlsafe(i))
           => authCall.outcome = "InvalidState"

\* Two get_authorization_url calls in a row, then the first one's state is
\* presented and rejected.
C4_Witness ==
    /\ authCall.op = "get_access_token"
    /\ authCall.builds >= 2
    /\ nonces >= 2
    /\ authCall.provided = token_urlsafe(nonces - 1)
    /\ authCall.outcome = "InvalidState"

\* C5: get_access_token and refresh_access_token leave the stored state as it
\* was, however they end: the stored state is always the one the last
\* get_authorization_url generated (None before the first).
C5_TokenCallsKeepState ==
    /\ authCall.op \in {"get_access_token", "refresh_access_token"}
           => state = authCall.stored
    /\ state = IF nonces = 0 THEN PyNone ELSE token_urlsafe(nonces)

\* A code exchange that succeeded on the stored state, which is still stored.
C5_Witness ==
    /\ authCall.op = "get_access_token"
    /\ authCall.outcome = "ok"
    /\ authCall.provided = authCall.stored
    /\ state = authCall.provided
    /\ state # PyNone

-----------------------------------------------------------------------------
(* The client's memo and its handling of statuses: C6, C8, C9, under       *)
(* SpecGateway                                                             *)

\* Both of the last two calls are get_catalog, the first on an empty memo.
TwoCatalogCalls ==
    /\ gwCall.op = "get_catalog"
    /\ prevCall.op = "get_catalog"
    /\ prevCall.memoWas = JsonNone

\* C6 as stated: whatever the upstream answers, two successive get_catalog
\* calls issue one /catalog request in total and the second returns what the
\* first returned.
C6_TwoCallsOneRequest ==
    TwoCatalogCalls
        => (/\ prevCall.nreqs + Len(reqs) = 1
            /\ gwCall.raised = prevCall.raised
            /\ gwCall.result.value = prevCall.result.value)

\* C6 as amended: when the first of two successive get_catalog calls, made on
\* an empty memo, returns a value other than None, the two calls issue one
\* /catalog request in total and the second returns the first one's value,
\* with any token; when the first raises or returns None, nothing is
\* memoized and the second issues a /catalog request of its own.
C6_MemoizedCatalogReturned ==
    TwoCatalogCalls
        => IF prevCall.raised = "none" /\ prevCall.result.value # JsonNone
           THEN /\ prevCall.nreqs = 1
                /\ Len(reqs) = 0
                /\ gwCall.raised = "none"
                /\ gwCall.result.value = prevCall.result.value
                /\ catalog = prevCall.result.value
           ELSE /\ prevCall.nreqs = 1
                /\ Len(reqs) = 1
                /\ reqs[1].via = "get_catalog"

\* The second get_catalog call, with the other token, returns the memo.
C6_Witness ==
    /\ TwoCatalogCalls
    /\ prevCall.result.value = CatalogObj("c1")
    /\ gwCall.result.value = CatalogObj("c1")
    /\ gwCall.token # memoToken
    /\ Len(reqs) = 0

\* The request e is addressed to the API base and names the catalog memo in
\* its path: /v2/catalogs/{id}/...
UsesCatalogOf(e, memo) ==
    /\ e.url.scheme = API_BASE_URL.scheme
    /\ e.url.host = API_BASE_URL.host
    /\ Len(e.url.path) >= 3
    /\ SubSeq(e.url.path, 1, 3) = API_BASE_URL.path \o <<"catalogs", memo.id>>

\* The request e is a /catalog request.
IsCatalogRequest(e) ==
    e.via = "get_catalog" \/ e.url.path = API_BASE_URL.path \o <<"catalog">>

\* The request e of the route call is the one get_album_assets_page sends to
\* the page_url it was given.
IsPageUrlRequest(call, e) ==
    /\ call.page_url # NoUrl
    /\ e.via = "get_album_assets_page"
    /\ e.url = RequestUrl(call.page_url)

\* C7 as stated, under SpecWeb: once the client has memoized a catalog
\* fetched with one token, no step changes the memo (a logout and a new login
\* included), and every request a later step makes the client issue with
\* another token is no /catalog request and has the memoized catalog's id in
\* its path.
C7_EveryRequestUsesMemo ==
    [][(catalog # JsonNone)
          => (/\ catalog' = catalog
              /\ \A i \in 1..Len(reqs') :
                     reqs'[i].token # memoToken
                        => (/\ ~IsCatalogRequest(reqs'[i])
                            /\ UsesCatalogOf(reqs'[i], catalog)))]_vars

\* C7 as amended: once the client has memoized a catalog, no step changes
\* the memo (a logout and a new login included), no later step makes the
\* client issue a /catalog request, and every request whose path the client
\* builds has the memoized catalog's id in it, with whatever token; the
\* request get_album_assets_page sends to a page_url it is given goes to that
\* URL as it is, which need not name the memoized catalog.
C7_BuiltRequestsUseMemo ==
    [][(catalog # JsonNone)
          => (/\ catalog' = catalog
              /\ \A i \in 1..Len(reqs') :
                     /\ ~IsCatalogRequest(reqs'[i])
                     /\ \/ UsesCatalogOf(reqs'[i], catalog)
                        \/ IsPageUrlRequest(webCall', reqs'[i]))]_vars

\* An album is viewed with tokB while the catalog in the memo was fetched
\* with tokA and no session holds tokA any more: both requests of the route
\* name the memoized catalog, and none asks for /catalog.
C7_Witness ==
    /\ webCall.route = "album_view"
    /\ webCall.code = 200
    /\ webCall.page_url = NoUrl
    /\ catalog # JsonNone
    /\ memoToken = "tokA"
    /\ session[webCall.sid] = "tokB"
    /\ \A s \in Sessions : session[s] # "tokA"
    /\ Len(reqs) = 2
    /\ \A i \in 1..Len(reqs) :
           /\ reqs[i].token = "tokB"
           /\ ~IsCatalogRequest(reqs[i])
           /\ UsesCatalogOf(reqs[i], catalog)

\* The operations C8 and C9 name: those that let an error propagate.
Propagating ==
    gwCall.op \in {"get_catalog", "get_albums_page", "get_album",
                   "get_album_assets_page", "get_asset_rendition"}

\* C8: a response with status 401 makes the operation raise the token-expired
\* error, whatever its body; the body is not handed to the JSON decoding and
\* the operation issues no request after it.
C8_Status401IsTokenExpired ==
    \A i \in 1..Len(reqs) :
        (reqs[i].answered /\ reqs[i].status = 401)
            => (/\ ~reqs[i].parsed
                /\ i = Len(reqs)
                /\ Propagating => (gwCall.raised = "TokenExpired"))

\* The /catalog request is answered, then the rendition request gets a 401.
C8_Witness ==
    /\ gwCall.op = "get_asset_rendition"
    /\ Len(reqs) = 2
    /\ reqs[2].status = 401
    /\ gwCall.raised = "TokenExpired"

\* C9: a response whose status is outside 2xx and is not 401 makes the
\* operation raise the upstream-request error with that status, and no page
\* is decoded from it.
C9_Non2xxIsUpstreamFailure ==
    \A i \in 1..Len(reqs) :
        (/\ reqs[i].answered
         /\ ~(reqs[i].status >= 200 /\ reqs[i].status < 300)
         /\ reqs[i].status # 401)
            => (/\ ~reqs[i].parsed
                /\ Propagating => (/\ gwCall.raised = "UpstreamRequestFailed"
                                   /\ gwCall.status = reqs[i].status))

-----------------------------------------------------------------------------
(* The synthesized prev_url: C10, under SpecPage *)

\* The values the query has for key k, in order.
ValuesOf(query, k) ==
    LET pairs == SelectSeq(query, LAMBDA p : p[1] = k)
    IN  [i \in 1..Len(pairs) |-> pairs[i][2]]

\* The two queries have the same pairs, each as many times.
SamePairs(q1, q2) ==
    \A k \in PageKeys, v \in PageValues \cup {PyStr(n) : n \in -MaxInt..MaxInt} :
        Cardinality({i \in 1..Len(q1) : q1[i] = <<k, v>>})
            = Cardinality({i \in 1..Len(q2) : q2[i] = <<k, v>>})

\* The last call is a get_album_assets_page call that was given a page_url
\* and returned, on a response that carries no prev link.
PrevIsSynthesized ==
    /\ gwCall.op = "get_album_assets_page"
    /\ gwCall.raised = "none"
    /\ gwCall.args.page_url # NoUrl
    /\ input.resp.body.json.prev.kind # "href"

\* url is page_url but for its query.
OnlyQueryDiffers(url, page_url) == [url EXCEPT !.query = page_url.query] = page_url

\* The query with its offset set to new_offset and its limit to l, the limit
\* added when the query has none.
QueryRewritten(query, new_offset, l) ==
    [i \in 1..Len(query) |->
        CASE query[i][1] = "offset" -> <<"offset", PyStr(new_offset)>>
          [] query[i][1] = "limit" -> <<"limit", PyStr(l)>>
          [] OTHER -> query[i]]
    \o IF ValuesOf(query, "limit") = <<>> THEN <<<<"limit", PyStr(l)>>>> ELSE <<>>

\* What C10 says of a page_url with offset o and limit l.
PrevAsStated(prev_url, page_url, o, l) ==
    IF o > 0
    THEN /\ prev_url # NoUrl
         /\ OnlyQueryDiffers(prev_url, page_url)
         /\ SamePairs(prev_url.query,
                      QueryRewritten(page_url.query, IF o - l > 0 THEN o - l ELSE 0, l))
    ELSE prev_url = NoUrl

\* C10 as stated: when the response carries no prev link and the page_url
\* has at most one offset and at most one limit, both integers (an absent
\* limit is the requested one, an absent offset is 0), prev_url is absent
\* for an offset of 0 or less, and otherwise is the page_url with its offset
\* set to max(0, offset - limit), its limit set to limit, and its other
\* parameters as they were, in any order.
C10_PrevIsPageUrlRewritten ==
    (/\ PrevIsSynthesized
     /\ Len(ValuesOf(gwCall.args.page_url.query, "offset")) <= 1
     /\ Len(ValuesOf(gwCall.args.page_url.query, "limit")) <= 1
     /\ \A v \in {ValuesOf(gwCall.args.page_url.query, k)[1] :
                      k \in {k \in {"offset", "limit"} :
                                ValuesOf(gwCall.args.page_url.query, k) # <<>>}} :
            IsNumeral(v))
        => PrevAsStated(gwCall.result.prevUrl, gwCall.args.page_url,
                        IF ValuesOf(gwCall.args.page_url.query, "offset") = <<>> THEN 0
                        ELSE PyInt(ValuesOf(gwCall.args.page_url.query, "offset")[1]),
                        IF ValuesOf(gwCall.args.page_url.query, "limit") = <<>>
                        THEN gwCall.args.limit
                        ELSE PyInt(ValuesOf(gwCall.args.page_url.query, "limit")[1]))

\* The pairs of the query whose value is not blank.
NonBlank(query) == SelectSeq(query, LAMBDA p : p[2] # "")

\* The first non-blank value of key k in the query, or else default.
FirstValue(query, k, default) ==
    IF ValuesOf(NonBlank(query), k) = <<>> THEN default
    ELSE ValuesOf(NonBlank(query), k)[1]

\* What the amended C10 says of a page_url whose first non-blank offset is
\* the text o and whose first non-blank limit is the text l.
PrevAsAmended(prev_url, page_url, o, l) ==
    IF IsNumeral(o) /\ IsNumeral(l) /\ PyInt(o) > 0
    THEN /\ prev_url # NoUrl
         /\ OnlyQueryDiffers(prev_url, page_url)
         /\ ValuesOf(prev_url.query, "offset")
               = <<PyStr(IF PyInt(o) - PyInt(l) > 0 THEN PyInt(o) - PyInt(l) ELSE 0)>>
         /\ PyInt(ValuesOf(prev_url.query, "offset")[1]) >= 0
         /\ ValuesOf(prev_url.query, "limit") = <<PyStr(PyInt(l))>>
         /\ \A k \in PageKeys \ {"offset", "limit"} :
                ValuesOf(prev_url.query, k) = ValuesOf(NonBlank(page_url.query), k)
         /\ Len(prev_url.query) = 2 + Len(SelectSeq(NonBlank(page_url.query),
                                                    LAMBDA p : p[1] \notin {"offset", "limit"}))
    ELSE prev_url = NoUrl

\* C10 as amended: when the response carries no prev link and a page_url was
\* given, prev_url is absent if the response decodes to an empty value, if
\* the first non-blank offset or limit of the page_url is no integer, or if
\* that offset (0 when there is none) is 0 or less.  Otherwise prev_url is the
\* page_url with its query rebuilt from the parsed parameters: one offset,
\* max(0, offset - limit), which is never negative; one limit, the first
\* non-blank limit of the page_url or else the requested limit; and every
\* other parameter with its non-blank values in their order, parameters with
\* a blank value being dropped.
C10_PrevFromParsedQuery ==
    PrevIsSynthesized
        => IF ~JsonTruthy(input.resp.body.json)
           THEN gwCall.result.prevUrl = NoUrl
           ELSE PrevAsAmended(gwCall.result.prevUrl, gwCall.args.page_url,
                              FirstValue(gwCall.args.page_url.query, "offset", "0"),
                              FirstValue(gwCall.args.page_url.query, "limit",
                                         PyStr(gwCall.args.limit)))

\* offset=2&limit=5&a=x on a page with no prev link: the offset is floored
\* at 0 and the rest is kept.
C10_Witness ==
    /\ PrevIsSynthesized
    /\ JsonTruthy(input.resp.body.json)
    /\ gwCall.args.page_url.query = <<<<"offset", "2">>, <<"limit", "5">>, <<"a", "x">>>>
    /\ gwCall.result.prevUrl
          = [gwCall.args.page_url EXCEPT
                !.query = <<<<"offset", "0">>, <<"limit", "5">>, <<"a", "x">>>>]

-----------------------------------------------------------------------------
(* The links of an assets page: C11, under SpecPage *)

\* The last call is a get_album_assets_page call that returned a page: its
\* response decoded to an object that is not empty.
PageReturned ==
    /\ gwCall.op = "get_album_assets_page"
    /\ gwCall.raised = "none"
    /\ JsonTruthy(input.resp.body.json)

\* C11: whenever the response carries links.prev.href, prev_url is that href
\* resolved against the response's base, whatever page_url and its offset
\* are; with no prev href and no page_url, prev_url is absent; next_url is
\* links.next.href resolved against the base when the response carries it
\* and absent otherwise, whatever prev_url is.
C11_UpstreamLinksWin ==
    PageReturned
        => /\ input.resp.body.json.prev.kind = "href"
                  => gwCall.result.prevUrl
                        = urljoin(input.resp.body.json.base,
                                  input.resp.body.json.prev.url)
           /\ (input.resp.body.json.prev.kind # "href" /\ gwCall.args.page_url = NoUrl)
                  => gwCall.result.prevUrl = NoUrl
           /\ input.resp.body.json.next.kind = "href"
                  => gwCall.result.nextUrl
                        = urljoin(input.resp.body.json.base,
                                  input.resp.body.json.next.url)
           /\ input.resp.body.json.next.kind # "href"
                  => gwCall.result.nextUrl = NoUrl

\* A page_url with offset=5&limit=2, from which offset=3 would be computed,
\* on a page whose prev link is offset=0&limit=2 and which has no next link.
C11_Witness ==
    /\ PageReturned
    /\ gwCall.args.page_url.query = <<<<"offset", "5">>, <<"limit", "2">>>>
    /\ input.resp.body.json.prev = UpstreamPrev
    /\ input.resp.body.json.next = NoLink
    /\ gwCall.result.prevUrl
          = Url("https", "lr.adobe.io",
                <<"v2", "catalogs", "c1", "albums", "a1", "assets">>,
                <<<<"offset", "0">>, <<"limit", "2">>>>, "")
    /\ gwCall.result.nextUrl = NoUrl

-----------------------------------------------------------------------------
(* The target of the page request: C13, under SpecPage *)

\* The last call is a get_album_assets_page call, and e is its page request.
IsPageRequest(e) ==
    /\ gwCall.op = "get_album_assets_page"
    /\ e.via = "get_album_assets_page"

\* The URL of /catalogs/{id}/albums/{album_id}/assets?limit={limit} under the
\* API base.
FirstPageUrl(catalog_id, album_id, limit) ==
    Url("https", "lr.adobe.io",
        <<"v2", "catalogs", catalog_id, "albums", album_id, "assets">>,
        <<<<"limit", ToString(limit)>>>>, "")

\* The URL whose text is "https://lr.adobe.io/v2" followed by the text of the
\* reference.
UnderApiBase(reference) ==
    Url("https", "lr.adobe.io",
        IF reference.rooted THEN <<"v2">> \o reference.path
        ELSE <<"v2" \o reference.path[1]>> \o Tail(reference.path),
        reference.query, reference.fragment)

\* C13 as stated: a page_url that is given is requested as it is, whatever
\* its form and whatever the limit; without one the request goes to
\* /catalogs/{id}/albums/{album_id}/assets?limit={limit} under the API base.
C13_PageUrlRequestedUnmodified ==
    \A i \in 1..Len(reqs) :
        IsPageRequest(reqs[i])
            => reqs[i].url
                  = IF gwCall.args.page_url # NoUrl THEN gwCall.args.page_url
                    ELSE FirstPageUrl(catalog.id, gwCall.args.album_id,
                                      gwCall.args.limit)

\* C13 as amended: a page_url that starts with http:// or https:// is
\* requested as it is, whatever the limit; any other page_url is requested
\* with the API base put before it; without a page_url the request goes to
\* /catalogs/{id}/albums/{album_id}/assets?limit={limit} under the API base.
C13_AbsolutePageUrlRequestedUnmodified ==
    \A i \in 1..Len(reqs) :
        IsPageRequest(reqs[i])
            => reqs[i].url
                  = CASE gwCall.args.page_url = NoUrl
                           -> FirstPageUrl(catalog.id, gwCall.args.album_id,
                                           gwCall.args.limit)
                      [] gwCall.args.page_url.scheme \in {"http", "https"}
                           -> gwCall.args.page_url
                      [] OTHER -> UnderApiBase(gwCall.args.page_url)

\* The page_url /catalogs/c1/albums/a1/assets?offset=2&limit=2 at limit 1 is
\* requested under the API base.
C13_Witness ==
    /\ gwCall.op = "get_album_assets_page"
    /\ gwCall.args.limit = 1
    /\ gwCall.args.page_url
          = Endpoint(<<"catalogs", "c1", "albums", "a1", "assets">>,
                     <<<<"offset", "2">>, <<"limit", "2">>>>)
    /\ \E i \in 1..Len(reqs) :
           /\ IsPageRequest(reqs[i])
           /\ reqs[i].url
                 = Url("https", "lr.adobe.io",
                       <<"v2", "catalogs", "c1", "albums", "a1", "assets">>,
                       <<<<"offset", "2">>, <<"limit", "2">>>>, "")

-----------------------------------------------------------------------------
(* The cursor of an albums page: C12, under SpecGateway *)

\* The last call is a get_albums_page call that returned; input.resp is the
\* answer to its page request.
AlbumsPageReturned ==
    /\ gwCall.op = "get_albums_page"
    /\ gwCall.raised = "none"

\* The values the link's href gives name_after, the blank ones left out.
NameAfterValues(link) ==
    IF link.kind # "href" THEN <<>>
    ELSE SelectSeq(ValuesOf(link.url.query, "name_after"), LAMBDA v : v # "")

\* C12: get_albums_page returns as cursor the value that links.next.href
\* gives name_after (the first one, a blank value being none), whatever the
\* page's other fields and its prev link hold; the cursor is absent when the
\* page has no next href, when the href has no name_after, and when the
\* page is empty or absent, and then the resource list is empty too.
C12_CursorIsNextNameAfter ==
    AlbumsPageReturned
        => IF JsonTruthy(input.resp.body.json)
           THEN /\ gwCall.result.resources = input.resp.body.json.resources
                /\ gwCall.result.cursor
                      = IF NameAfterValues(input.resp.body.json.next) = <<>>
                        THEN PyNone
                        ELSE NameAfterValues(input.resp.body.json.next)[1]
           ELSE /\ gwCall.result.resources = <<>>
                /\ gwCall.result.cursor = PyNone

\* The page whose next href is catalogs/c1/albums?limit=8&name_after=Zebra.
C12_Witness ==
    /\ AlbumsPageReturned
    /\ input.resp.body.json = GwAlbumsPage
    /\ gwCall.result.cursor = "Zebra"
    /\ gwCall.result.resources # <<>>

-----------------------------------------------------------------------------
(* Envelope decoding: C15, under SpecPage *)

\* A variant of the prefix while(1){}: the word in any case, then ( 1 ) { },
\* with any whitespace between them and after them.
IsWhile1Variant(prefix) ==
    /\ prefix # <<>>
    /\ ~IsSpace(prefix[1])
    /\ prefix[1] \in {"while", "While", "WHILE"}
    /\ Tail(SelectSeq(prefix, LAMBDA t : ~IsSpace(t))) = <<"(", "1", ")", "{", "}">>

\* The last call ended as run does.
SameOutcome(run) ==
    /\ gwCall.raised = run.raised
    /\ gwCall.result = run.result

\* C15: a body that is a variant of while(1){} followed by B is decoded as
\* B alone is, for every B: the call on the one ends as the call on the
\* other; and on an empty body the call returns no resources, no next_url
\* and no prev_url.
C15_PrefixedDecodesAsBare ==
    gwCall.op = "get_album_assets_page"
        => /\ IsWhile1Variant(input.resp.body.prefix)
                  => SameOutcome(get_album_assets_page(
                                     gwCall.token, gwCall.args.album_id,
                                     gwCall.args.limit, gwCall.args.page_url,
                                     gwCall.memoWas,
                                     IF IsMemoized(gwCall.memoWas) THEN NotAsked
                                     ELSE PageCatalog,
                                     [input.resp EXCEPT !.body.prefix = <<>>]))
           /\ input.resp.body = EmptyBody
                  => /\ gwCall.raised = "none"
                     /\ gwCall.result = NoResult

-----------------------------------------------------------------------------
(* The first asset of an album: C14, under SpecWeb *)

\* The last step is a listing of albums whose page request returned: it
\* looked up the first asset of an album.
ListingEnriched ==
    /\ webCall.route \in {"albums", "albums_api"}
    /\ \E i \in 1..Len(reqs) : reqs[i].via = "get_album_first_asset"

\* The lookup on a client that cannot resolve the catalog id, for every
\* answer to its /catalog request that leaves the id unresolved.
CatalogUnresolvedRuns ==
    {get_album_first_asset(token, "a1", JsonNone, r1, NotAsked) :
        token \in Tokens,
        r1 \in {r \in GwCatalogAnswers : CatalogId("tokA", JsonNone, r).raised # "none"}}

\* C14: get_album_first_asset returns None and raises nothing when the
\* catalog id cannot be resolved, and when its request fails (401, another
\* error status, no response, a body that is no JSON, a first resource that
\* is no object); a listing of albums in which a lookup failed is answered
\* 200 with every album of the page, the album of the failed lookup with no
\* first asset.
C14_FirstAssetNeverAborts ==
    /\ \A run \in CatalogUnresolvedRuns :
           /\ run.raised = "none"
           /\ run.result.assetId = PyNone
           /\ run.result.swallowed # "none"
    /\ ListingEnriched
           => /\ webCall.code = 200
              /\ [i \in 1..Len(webCall.albums) |-> webCall.albums[i].id]
                    = [i \in 1..Len(WebPage.resources) |-> WebPage.resources[i].id]
              /\ \A i \in 1..Len(webCall.albums) :
                     webCall.albums[i].warning # "none"
                         => webCall.albums[i].first_asset_id = PyNone

\* A listing whose first lookup was answered 401 and whose second lookup
\* found the asset x1.
C14_Witness ==
    /\ ListingEnriched
    /\ webCall.route = "albums"
    /\ webCall.code = 200
    /\ webCall.albums
          = <<[id |-> "a1", first_asset_id |-> PyNone, warning |-> "TokenExpired"],
              [id |-> "a2", first_asset_id |-> "x1", warning |-> "none"]>>

-----------------------------------------------------------------------------
(* Logout: C16, under SpecWeb *)

\* The routes that call the lightroom_client.
CatalogRoutes ==
    {"albums", "albums_api", "album_view", "album_photos_api", "thumbnail"}

\* The route refused the request: a redirect to the login page, or 401.
Refused(call) ==
    \/ call.code = 302 /\ call.location = "login"
    \/ call.code = 401

\* C16: a logout leaves its session without credential; a request of a
\* session without credential to a route that calls the lightroom_client is
\* refused, by a redirect to the login page or by 401, and no upstream
\* request is made for it; and a session without credential gets one only
\* by a callback of its own whose code exchange succeeded.  So from a logout
\* to the next successful code exchange of the session every such request
\* is refused.
C16_RefusedFromLogoutToExchange ==
    [][/\ webCall'.route = "logout" => session'[webCall'.sid] = PyNone
       /\ \A s \in Sessions :
              /\ (/\ session[s] = PyNone
                  /\ webCall'.sid = s
                  /\ webCall'.route \in CatalogRoutes)
                     => (/\ Refused(webCall')
                         /\ reqs' = <<>>
                         /\ session'[s] = PyNone)
              /\ (session[s] = PyNone /\ session'[s] # PyNone)
                     => (/\ webCall'.route = "callback"
                         /\ webCall'.sid = s
                         /\ authCall'.op = "get_access_token"
                         /\ authCall'.outcome = "ok")]_vars

\* No session holds a credential while the client holds the catalog that one
\* of them had it fetch: that session has logged out, and the last request,
\* for the list of albums, was redirected to the login page.
C16_Witness ==
    /\ catalog # JsonNone
    /\ \A s \in Sessions : session[s] = PyNone
    /\ webCall.route = "albums"
    /\ webCall.code = 302
    /\ webCall.location = "login"
    /\ reqs = <<>>

-----------------------------------------------------------------------------
(* The rendition types of /thumbnail: C17, under SpecWeb *)

\* The types C17 lists.
ListedTypes == {"thumbnail", "thumbnail2x", "640", "1280", "1920", "2048", "2560"}

\* /catalogs/{id}/assets/{asset_id}/renditions/{type}: the type of a
\* rendition request.
RequestedType(e) == e.url.path[Len(e.url.path)]

\* C17: /thumbnail answers a type outside the list with 400 and makes no
\* upstream request for it; every rendition request is made for /thumbnail
\* and carries a type of the list, the type the route was given; and a
\* request to /thumbnail without a type parameter is served with the type
\* thumbnail2x.
C17_OnlyListedTypesRequested ==
    /\ \A i \in 1..Len(reqs) :
           (reqs[i].via = "get_asset_rendition" /\ webCall.route # "none")
               => (/\ webCall.route = "thumbnail"
                   /\ RequestedType(reqs[i]) \in ListedTypes
                   /\ RequestedType(reqs[i])
                         = IF webCall.type = PyNone THEN "thumbnail2x" ELSE webCall.type)
    /\ (/\ webCall.route = "thumbnail"
        /\ webCall.code # 401
        /\ webCall.type # PyNone
        /\ webCall.type \notin ListedTypes)
           => (webCall.code = 400 /\ reqs = <<>>)
    /\ (/\ webCall.route = "thumbnail"
        /\ webCall.code # 401
        /\ webCall.type = PyNone)
           => (webCall.code # 400 /\ webCall.rendition_type = "thumbnail2x")

\* No type parameter was given, and a rendition of type thumbnail2x was
\* requested upstream.
C17_Witness ==
    /\ webCall.route = "thumbnail"
    /\ webCall.code = 200
    /\ webCall.type = PyNone
    /\ \E i \in 1..Len(reqs) :
           /\ reqs[i].via = "get_asset_rendition"
           /\ RequestedType(reqs[i]) = "thumbnail2x"

-----------------------------------------------------------------------------
(* The answers of the token endpoint: C18, under SpecAuth *)

\* The last call is a get_access_token call whose POST was answered.
ExchangeAnswered ==
    /\ authCall.op = "get_access_token"
    /\ authCall.posts = 1
    /\ authCall.resp.arrived

\* The detail C18 names for a body: error_description, else error, else the
\* raw body, else the status.
DetailAsStated(body) ==
    CASE body = "obj_desc" -> "error_description"
      [] body = "obj_err" -> "error"
      [] body = "empty" -> "status"
      [] OTHER -> "text"

\* C18: on a status outside 2xx get_access_token raises the token-exchange
\* error, whatever the body is (an object with error_description, with error
\* only, with neither, JSON that is no object, text that is no JSON,
\* nothing), with the detail error_description, else error, else the raw
\* body, else the status; on a 2xx status it returns the parsed JSON of the
\* body.
C18_NonSuccessIsTokenExchangeFailed ==
    ExchangeAnswered
        => IF authCall.resp.status >= 200 /\ authCall.resp.status < 300
           THEN ~JsonFails(authCall.resp.body)
                    => (/\ authCall.outcome = "ok"
                        /\ authCall.detail = authCall.resp.body)
           ELSE /\ authCall.outcome = "TokenExchangeFailed"
                /\ authCall.detail = DetailAsStated(authCall.resp.body)

-----------------------------------------------------------------------------
(* The eager drain: C19 under SpecDrain, C20 under SpecDrainFair *)

\* What the upstream served to the i-th request of the drain.
ServedTo(i) == Upstream(reqs[i].url)

\* The i-th page ends the chain: no page, no next link, or a next link
\* without href.
EndsChain(i) ==
    \/ ~JsonTruthy(ServedTo(i).body.json)
    \/ ServedTo(i).body.json.next.kind # "href"

ServedResources(i) ==
    IF JsonTruthy(ServedTo(i).body.json) THEN ServedTo(i).body.json.resources
    ELSE <<>>

\* The resources of the pages served, in the order of the requests; a page
\* of Chains has one resource at most.
ResourcesInChainOrder ==
    LET filled == SelectSeq([i \in 1..Len(reqs) |-> i],
                            LAMBDA i : ServedResources(i) # <<>>)
    IN  [k \in 1..Len(filled) |-> ServedResources(filled[k])[1]]

\* The drain has returned after the requests of reqs: the first went to the
\* initial endpoint, each later one to the next link of the page before it,
\* only the last page ends the chain, no URL was requested twice, and the
\* list returned is the resources of these pages in order.
DrainedTheChain ==
    /\ Len(reqs) >= 1
    /\ reqs[1].url = RequestUrl(InitialEndpoint)
    /\ \A i \in 1..(Len(reqs) - 1) :
           /\ ~EndsChain(i)
           /\ reqs[i + 1].url = NextUrl(ServedTo(i).body.json)
    /\ EndsChain(Len(reqs))
    /\ \A i, j \in 1..Len(reqs) : reqs[i].url = reqs[j].url => i = j
    /\ drain.resources = ResourcesInChainOrder

\* C19: the drain stops at the first page that ends the chain (no page, no
\* next link, or a next link without href): holding such a page, its next
\* step returns without another request; and when it has returned, it has
\* requested each page of the chain up to that one once, in chain order, and
\* it returns the concatenation of their resources in that order.
C19_DrainStopsAtLastPage ==
    /\ [](drain.pc = "returned" => DrainedTheChain)
    /\ [][drain.pc = "loop" /\ ~HasNext(drain.page)
              => drain'.pc = "returned" /\ reqs' = reqs
                 /\ drain'.resources = drain.resources]_vars

C19_Witness ==
    /\ drain.pc = "returned"
    /\ Len(reqs) = 3
    /\ Len(drain.resources) = 3
    /\ ServedTo(3).body.json.next = EmptyLink

\* The page the drain holds has a next link to a URL the drain has
\* requested already.
RepeatsCursor ==
    /\ drain.pc = "loop"
    /\ HasNext(drain.page)
    /\ \E i \in 1..Len(reqs) : reqs[i].url = RequestUrl(NextUrl(drain.page))

DrainStopped == drain.pc \in {"returned", "raised"}

\* C20: a drain that holds a page whose next link repeats a cursor it has
\* followed already stops eventually.
C20_RepeatedCursorStops == RepeatsCursor ~> DrainStopped

-----------------------------------------------------------------------------
(* No retry: C21, under SpecGateway *)

\* The request e was not answered, or was answered with an error status.
FailedRequest(e) == ~e.answered \/ e.status = 401 \/ RaisesForStatus(e.status)

CatalogUrl == RequestUrl(Endpoint(<<"catalog">>, <<>>))

\* The errors of a request that failed.
RequestErrors == {"TransportError", "TokenExpired", "UpstreamRequestFailed"}

\* What the caller gets from a call whose request failed: the error, or
\* nothing from get_album_first_asset.
FailureSurfaced ==
    IF gwCall.op = "get_album_first_asset"
    THEN /\ gwCall.raised = "none"
         /\ gwCall.result.assetId = PyNone
         /\ gwCall.result.swallowed \in RequestErrors
    ELSE gwCall.raised \in RequestErrors

\* C21: a call on the client issues two requests at most, no URL twice; when
\* it issues two, the first is the /catalog request and it was answered
\* without error; a request that failed (401 included) is the call's last,
\* and the call raises its error (get_album_first_asset returns None); and
\* no call on the client makes the OAuth handler post to the token endpoint.
C21_NoRequestRetried ==
    /\ Len(reqs) <= 2
    /\ \A i, j \in 1..Len(reqs) : reqs[i].url = reqs[j].url => i = j
    /\ Len(reqs) = 2 => reqs[1].url = CatalogUrl /\ ~FailedRequest(reqs[1])
    /\ \A i \in 1..Len(reqs) :
           FailedRequest(reqs[i]) => i = Len(reqs) /\ FailureSurfaced
    /\ authCall.posts = 0

C21_Witness ==
    /\ gwCall.op = "get_album_assets_page"
    /\ Len(reqs) = 2
    /\ reqs[2].status = 401
    /\ gwCall.raised = "TokenExpired"

-----------------------------------------------------------------------------
(* The callback and the session that started the attempt: C22, under SpecWeb *)

\* The request just served was an /oauth/start that generated the stored
\* state.
AttemptStarted == webCall.route = "oauth_start" /\ webCall.location = "authorize"

\* The step serves a callback that presents the stored state and stores a
\* token in the session of the request.
CredentialByStoredState ==
    /\ webCall'.route = "callback"
    /\ authCall'.provided = state
    /\ Granted(authCall')
    /\ session'[webCall'.sid] # PyNone

\* C22: a callback obtains a credential only for the session whose
\* /oauth/start generated the state it presents; in particular, when the
\* callback follows the /oauth/start that generated the state it presents,
\* both are requests of one session.
C22_CallbackOnlyForStartingSession ==
    [][AttemptStarted /\ CredentialByStoredState => webCall'.sid = webCall.sid]_vars

-----------------------------------------------------------------------------
(* Where the bearer token is sent: C23, under SpecGateway *)

\* The URL is https://lr.adobe.io/v2 or a path below it.
AtApiBase(url) ==
    /\ url.scheme = API_BASE_URL.scheme
    /\ url.host = API_BASE_URL.host
    /\ url.rooted
    /\ Len(url.path) >= Len(API_BASE_URL.path)
    /\ SubSeq(url.path, 1, Len(API_BASE_URL.path)) = API_BASE_URL.path

\* C23: every request the client issues with a bearer token goes to a URL
\* at the API base https://lr.adobe.io/v2, whatever the calls and their
\* arguments, a page_url of get_album_assets_page included.
C23_TokenOnlySentToApiBase ==
    \A i \in 1..Len(reqs) : reqs[i].token # PyNone => AtApiBase(reqs[i].url)

-----------------------------------------------------------------------------
(* The catalog memo under concurrent calls: C24, under SpecThreads *)

\* Two calls that both found the memo empty have returned.
StartedEmptyAndReturned(t, u) ==
    /\ t # u
    /\ threads[t].sawNone /\ threads[t].pc = "returned"
    /\ threads[u].sawNone /\ threads[u].pc = "returned"

\* C24: a memo that holds a non-empty catalog is never assigned another
\* value by a get_catalog call, later or concurrent; and get_catalog calls
\* that start while the memo is empty issue one /catalog request together
\* and return the same catalog.
C24_MemoWrittenOnce ==
    /\ [][JsonTruthy(catalog) => catalog' = catalog]_vars
    /\ [](\A t, u \in Threads :
              StartedEmptyAndReturned(t, u)
                  => /\ Len(reqs) = 1
                     /\ threads[t].returned = threads[u].returned)

-----------------------------------------------------------------------------
(* Backward paging: C25, under SpecPage *)

\* int(parse_qs(urlparse(url).query)['offset'][0])
OffsetIn(url) == PyInt(DictFirst(parse_qs(url.query), "offset"))

\* The last call computed its prev_url from its page_url.
PrevWasSynthesized == PrevIsSynthesized /\ gwCall.result.prevUrl # NoUrl

\* C25: a prev_url that get_album_assets_page computes from its page_url has
\* an offset strictly smaller than that of the page_url, whatever integer
\* the limit of the page_url is, 0 included.
C25_SynthesizedPrevGoesBack ==
    PrevWasSynthesized
        => OffsetIn(gwCall.result.prevUrl) < OffsetIn(gwCall.args.page_url)

-----------------------------------------------------------------------------
(* The cursor of the albums pages: C26, under SpecCursor *)

\* The step calls get_albums_page with the cursor the call before returned,
\* and the call issues its page request.
CursorFollowed ==
    /\ gwCall.op = "get_albums_page"
    /\ gwCall.result.cursor # PyNone
    /\ gwCall'.op = "get_albums_page"
    /\ gwCall'.args.name_after = gwCall.result.cursor
    /\ reqs' # <<>>

\* C26: when get_albums_page is called with a cursor that get_albums_page
\* returned, whatever characters the cursor has, the query of the page
\* request has one name_after, which decodes to the cursor, and one limit,
\* which is the limit of the call.
C26_CursorRoundTrip ==
    [][CursorFollowed
          => /\ ValuesOf(reqs'[Len(reqs')].url.query, "name_after")
                    = <<gwCall.result.cursor>>
             /\ ValuesOf(reqs'[Len(reqs')].url.query, "limit")
                    = <<PyStr(gwCall'.args.limit)>>]_vars

====
